---- MODULE Spec2Model ----
(***************************************************************************)
(* State-machine model of the Lonely Assistant plugin core: the tool       *)
(* orchestration (RateLimiter, ConsentManager, ToolRegistry,               *)
(* ApplyPatchTool, the streamCompletion loop of LonelyAssistantView) and   *)
(* the retrieval index (RAGService).  Each component has its own           *)
(* specification (SpecRate, SpecExec, SpecPatch, SpecLoop, SpecRag) over   *)
(* the shared variables; the other components keep their initial value.    *)
(***************************************************************************)
EXTENDS Integers, Sequences, FiniteSets, TLC

\* ------------------------------------------------------------------------
\* Bounds of the model (not program constants)
\* ------------------------------------------------------------------------
\* Clock ticks making up RateLimiter's 60 s window (windowMs = 60 * 1000).
WindowTicks == 2
\* Last clock value of a RateLimiter run.
MaxTime == 4
\* Number of apply_patch executions that get an execution id in a run.
MaxExec == 2
\* number of sends of one conversation view
MaxSends == 2
\* number of vault events (modify, delete, rename)
MaxEvents == 2
\* Clock ticks making up the save delay (SAVE_DEBOUNCE_MS = 2500).
DebounceTicks == 2
\* number of 'modify' events of a run of the save scheduling
MaxMods == 3
\* number of audit entries after which no further registry call starts
MaxLogs == 2
\* number of lines of a document fed to chunkFile line by line
MaxLines == 5
\* number of characters of the text of a chunk given to scoreChunk
MaxChars == 4
\* number of names mentioned in one message
MaxNames == 2

VARIABLES
    \* RateLimiter
    now,               \* Date.now(), in ticks
    limits,            \* RateLimiter.limits: tool name -> timestamps
    globalTimestamps,  \* RateLimiter.globalTimestamps
    rateLimits,        \* settings.rateLimits (0: no entry for the tool)
    globalRateLimit,   \* settings.globalRateLimit
    admitLog,          \* history: <<tool, time>> of every admitted call
    lastCheck,         \* history: the last checkLimit call and its answer
    rejectedTools,     \* history: tools that had a call rejected
    \* ToolRegistry + ConsentManager
    enabledTools,            \* settings.enabledTools
    blockExternalRequests,   \* settings.blockExternalRequests
    consentMode,             \* settings.consentMode ("unset": no entry)
    developerMode,           \* settings.developerMode
    sessionConsent,          \* ConsentManager.sessionConsent
    epc,                     \* where the executeWithConsent call is suspended
    ecall,                   \* the call in progress (tool and history)
    eresult,                 \* the ToolResult last returned
    eparams,                 \* the parameter map of the last call
    auditLogs,               \* AuditLogger.logs
    enableAuditLog,          \* settings.enableAuditLog
    logParameterValues,      \* settings.logParameterValues
    anonymizeLog,            \* settings.anonymizeLog
    \* ApplyPatchTool
    pfile,          \* content of the target file F, as its lines
    backupEnabled,  \* ApplyPatchTool.backupEnabled (settings.patchBackupEnabled)
    pbackups,       \* backup files written: execution id -> content
    undoStack,      \* ApplyPatchTool.undoStack: execution id -> content
    pnext,          \* number of execution ids handed out
    ppc,            \* where execute is suspended: "idle", "modify"
    pcur,           \* locals of the execute call in progress
    presult,        \* the last ToolResult of execute / undo
    phist,          \* history: execution id -> pre-image, post-image, backup
    \* LonelyAssistantView (one send: sendMessage -> streamCompletion)
    lpc,             \* where streamCompletion is suspended
    isStreaming,     \* LonelyAssistantView.isStreaming
    aborted,         \* abortController.signal.aborted
    assistantContent,  \* assistantMessage.content, as its parts
    responseText,    \* local responseText, as its parts
    chunksReceived,  \* local chunksReceived
    finalCalls,      \* finalMessage.tool_calls, as tool names
    queue,           \* tool calls the for-of loop has not reached yet
    toolName,        \* local toolName of the iteration in progress
    pendingContext,  \* LonelyAssistantView.pendingContext is not null
    alwaysTools,     \* the model returns tool calls in every response
    sends,           \* number of sends started
    lhist,           \* history of the send in progress or last ended
    \* RAGService and the vault
    vault,              \* the vault: path -> File(lines) or NoFile
    ragEnabled,         \* settings.ragEnabled
    ragExcludeFolders,  \* settings.ragExcludeFolders
    chunks,             \* RAGService.chunks
    chunksByFile,       \* RAGService.chunksByFile
    saveTimeout,        \* RAGService.saveTimeout is set
    indexFile,          \* INDEX_FILE: Snapshot(chunks) or NoIndex
    rpc,                \* where rebuildIndex is suspended
    rfiles,             \* rebuildIndex: files not read yet
    racc,               \* rebuildIndex: local chunks
    events,             \* number of vault events so far
    rhist,              \* history of the store
    \* the timers of RAGService.scheduleSave
    timers,             \* pending window timers: ticks left, newest last
    shist,              \* history of the modifications and index writes
    \* one call of a function of the plugin
    fnArgs,             \* the arguments of the call
    fnResult,           \* what the call returned
    \* RAGService.ready
    ready,              \* the promise of loadIndex and how far loadIndex is
    \* ToolRegistry's maps
    providers,          \* ToolRegistry.providers: provider id -> tool names
    tools,              \* ToolRegistry.tools: tool name -> provider of the tool
    regLast,            \* history: the last call, its outcome, the maps before
    \* WebFetchTool
    fetchSettings,    \* WebFetchTool's constructor fields
    fetchCache,    \* WebFetchTool.cache: the keys with a live entry
    fetchLast,   \* history: the last execute call and what it did
    \* AuditLogger's log file
    logFile,    \* the log file: whether it exists and its entries
    logPhase,    \* the life of the AuditLogger: constructed, running, down
    logSeq    \* history: the logExecution calls made so far

varsRate == <<now, limits, globalTimestamps, rateLimits, globalRateLimit,
              admitLog, lastCheck, rejectedTools>>

varsExec == <<enabledTools, blockExternalRequests, consentMode, developerMode,
              sessionConsent, epc, ecall, eresult, eparams, auditLogs,
              enableAuditLog, logParameterValues, anonymizeLog>>

\* the privacy settings of the audit log
auditSettings == <<enableAuditLog, logParameterValues, anonymizeLog>>

\* ToolRegistry and ConsentManager without the entries of the audit log
varsExecNoLogs == <<enabledTools, blockExternalRequests, consentMode,
                    developerMode, sessionConsent, epc, ecall, eresult,
                    eparams, auditSettings>>

varsPatch == <<pfile, backupEnabled, pbackups, undoStack, pnext, ppc, pcur,
               presult, phist>>

varsLoop == <<lpc, isStreaming, aborted, assistantContent, responseText,
              chunksReceived, finalCalls, queue, toolName, pendingContext,
              alwaysTools, sends, lhist>>

varsRag == <<vault, ragEnabled, ragExcludeFolders, chunks, chunksByFile,
             saveTimeout, indexFile, rpc, rfiles, racc, events, rhist>>

varsSave == <<timers, shist>>

varsCall == <<fnArgs, fnResult>>

varsLoad == <<ready>>

varsReg == <<providers, tools, regLast>>

varsFetch == <<fetchSettings, fetchCache, fetchLast>>

varsLog == <<logFile, logPhase, logSeq>>

vars == <<now, limits, globalTimestamps, rateLimits, globalRateLimit,
          admitLog, lastCheck, rejectedTools,
          enabledTools, blockExternalRequests, consentMode, developerMode,
          sessionConsent, epc, ecall, eresult, eparams, auditLogs,
          enableAuditLog, logParameterValues, anonymizeLog,
          pfile, backupEnabled, pbackups, undoStack, pnext, ppc, pcur,
          presult, phist,
          lpc, isStreaming, aborted, assistantContent, responseText,
          chunksReceived, finalCalls, queue, toolName, pendingContext,
          alwaysTools, sends, lhist,
          vault, ragEnabled, ragExcludeFolders, chunks, chunksByFile,
          saveTimeout, indexFile, rpc, rfiles, racc, events, rhist,
          timers, shist,
          fnArgs, fnResult, ready, providers, tools, regLast,
          fetchSettings, fetchCache, fetchLast,
          logFile, logPhase, logSeq>>

\* ------------------------------------------------------------------------
\* RateLimiter (src/src/tools/RateLimiter.ts)
\* ------------------------------------------------------------------------
RateTools == {"find", "grep"}

\* values drawn for settings.rateLimits[tool] (0: the tool has no entry) and
\* for settings.globalRateLimit
RateLimitChoices == 0..2

GlobalLimitChoices == {2, 3}

\* `settings.rateLimits[toolName] || 60`
DefaultToolLimit == 60

ToolLimit(t) == IF rateLimits[t] = 0 THEN DefaultToolLimit ELSE rateLimits[t]

\* (variant of KeepTimestamp: a timestamp exactly 60 s old is kept)
KeepTimestampInclusive(ts, cutoff) == ts >= cutoff

\* the filter of cleanupOldTimestamps: a timestamp is kept iff ts > cutoff
KeepTimestamp(ts, cutoff) == ts > cutoff

FilterSeq(s, cutoff) == SelectSeq(s, LAMBDA ts : KeepTimestamp(ts, cutoff))

CleanLimits(cutoff) == [u \in DOMAIN limits |-> FilterSeq(limits[u], cutoff)]

\* admissions of tool t (history) inside the window (at - WindowTicks, at]
AdmittedInWindow(t, at) ==
    Cardinality({i \in 1..Len(admitLog) :
        /\ admitLog[i][1] = t
        /\ admitLog[i][2] > at - WindowTicks
        /\ admitLog[i][2] <= at})

AllAdmittedInWindow(at) ==
    Cardinality({i \in 1..Len(admitLog) :
        /\ admitLog[i][2] > at - WindowTicks
        /\ admitLog[i][2] <= at})

RateInit ==
    /\ now = 0
    /\ limits = <<>>
    /\ globalTimestamps = <<>>
    /\ rateLimits \in [RateTools -> RateLimitChoices]
    /\ globalRateLimit \in GlobalLimitChoices
    /\ admitLog = <<>>
    /\ lastCheck = [called |-> FALSE, tool |-> "", at |-> 0, ok |-> FALSE,
                    seen |-> 0, gseen |-> 0]
    /\ rejectedTools = {}

\* a RateLimiter nothing has called yet, under the default settings' shape
RateIdle ==
    /\ now = 0
    /\ limits = <<>>
    /\ globalTimestamps = <<>>
    /\ rateLimits = [t \in RateTools |-> 1]
    /\ globalRateLimit = 2
    /\ admitLog = <<>>
    /\ lastCheck = [called |-> FALSE, tool |-> "", at |-> 0, ok |-> FALSE,
                    seen |-> 0, gseen |-> 0]
    /\ rejectedTools = {}

\* time passes between two calls
Tick ==
    /\ now < MaxTime
    /\ now' = now + 1
    /\ UNCHANGED <<limits, globalTimestamps, rateLimits, globalRateLimit,
                   admitLog, lastCheck, rejectedTools>>

\* (variant of RateReject: the rejected attempt is recorded in the global list)
RateRejectRecorded(t, cleaned, g) ==
    /\ limits' = cleaned
    /\ globalTimestamps' = Append(g, now)
    /\ admitLog' = admitLog
    /\ rejectedTools' = rejectedTools \cup {t}
    /\ lastCheck' = [called |-> TRUE, tool |-> t, at |-> now, ok |-> FALSE,
                     seen |-> AdmittedInWindow(t, now),
                     gseen |-> AllAdmittedInWindow(now)]

\* checkLimit returns false: only the cleanup has written
RateReject(t, cleaned, g) ==
    /\ limits' = cleaned
    /\ globalTimestamps' = g
    /\ admitLog' = admitLog
    /\ rejectedTools' = rejectedTools \cup {t}
    /\ lastCheck' = [called |-> TRUE, tool |-> t, at |-> now, ok |-> FALSE,
                     seen |-> AdmittedInWindow(t, now),
                     gseen |-> AllAdmittedInWindow(now)]

RateAdmit(t, cleaned, g) ==
    /\ limits' = [u \in (DOMAIN cleaned) \cup {t} |->
                    IF u = t
                    THEN (IF t \in DOMAIN cleaned
                          THEN Append(cleaned[t], now) ELSE <<now>>)
                    ELSE cleaned[u]]
    /\ globalTimestamps' = Append(g, now)
    /\ admitLog' = Append(admitLog, <<t, now>>)
    /\ rejectedTools' = rejectedTools
    /\ lastCheck' = [called |-> TRUE, tool |-> t, at |-> now, ok |-> TRUE,
                     seen |-> AdmittedInWindow(t, now),
                     gseen |-> AllAdmittedInWindow(now)]

\* RateLimiter.checkLimit(toolName)
CheckLimit(t) ==
    LET cutoff == now - WindowTicks
        cleaned == CleanLimits(cutoff)
        g == FilterSeq(globalTimestamps, cutoff)
    IN  /\ IF t \in DOMAIN cleaned /\ Len(cleaned[t]) >= ToolLimit(t)
           THEN RateReject(t, cleaned, g)
           ELSE IF Len(g) >= globalRateLimit
                THEN RateReject(t, cleaned, g)
                ELSE RateAdmit(t, cleaned, g)
        /\ UNCHANGED <<now, rateLimits, globalRateLimit>>

RateCall == \E t \in RateTools : CheckLimit(t)


\* ------------------------------------------------------------------------
\* ToolRegistry.executeWithConsent and ConsentManager
\* (src/src/tools/AuditLogger.ts 249-440, src/src/tools/ConsentManager.ts)
\* ------------------------------------------------------------------------
\* the tools BuiltInToolProvider registers that differ in risk level,
\* canBypass or network class
ExecTools == {"find", "grep", "apply_patch", "web_fetch"}

\* a name no provider registered
UnknownTool == "no_such_tool"

RiskLevel(t) ==
    CASE t = "find" -> "safe"
      [] t = "grep" -> "low"
      [] t = "read" -> "low"
      [] t = "apply_patch" -> "high"
      [] t = "web_search" -> "medium"
      [] t = "web_fetch" -> "medium"

CanBypass(t) == t # "apply_patch"

\* (variant of IsNetworkTool: no tool counts as a network tool)
IsNetworkToolNever(t) == FALSE

\* ToolRegistry.isNetworkTool
IsNetworkTool(t) == t \in {"web_search", "web_fetch"}

ConsentModes == {"always_ask", "session_allow", "always_allow", "never_allow"}

\* ConsentManager.getConsentMode: `settings.consentMode[toolName] || 'always_ask'`
GetConsentMode(t) ==
    IF consentMode[t] = "unset" THEN "always_ask" ELSE consentMode[t]

\* (variant of RequestConsent: always_allow is honoured for every tool)
RequestConsentBypassAll(t) ==
    LET mode == GetConsentMode(t)
    IN  IF mode = "never_allow" THEN "deny"
        ELSE IF developerMode /\ RiskLevel(t) = "safe" THEN "approve"
        ELSE IF mode = "always_allow" THEN "approve"
        ELSE IF mode = "session_allow" /\ t \in sessionConsent THEN "approve"
        ELSE IF mode \in {"session_allow", "always_ask"} \/ ~CanBypass(t)
             THEN "ask"
        ELSE "deny"

\* (variant of RequestConsent: developer mode is tested before never_allow)
RequestConsentDevFirst(t) ==
    LET mode == GetConsentMode(t)
    IN  IF developerMode /\ RiskLevel(t) = "safe" THEN "approve"
        ELSE IF mode = "never_allow" THEN "deny"
        ELSE IF mode = "always_allow" /\ CanBypass(t) THEN "approve"
        ELSE IF mode = "session_allow" /\ t \in sessionConsent THEN "approve"
        ELSE IF mode \in {"session_allow", "always_ask"} \/ ~CanBypass(t)
             THEN "ask"
        ELSE "deny"

\* (variant of RequestConsent: developer mode approves every risk level)
RequestConsentDevAny(t) ==
    LET mode == GetConsentMode(t)
    IN  IF mode = "never_allow" THEN "deny"
        ELSE IF developerMode THEN "approve"
        ELSE IF mode = "always_allow" /\ CanBypass(t) THEN "approve"
        ELSE IF mode = "session_allow" /\ t \in sessionConsent THEN "approve"
        ELSE IF mode \in {"session_allow", "always_ask"} \/ ~CanBypass(t)
             THEN "ask"
        ELSE "deny"

\* ConsentManager.requestConsent up to its await: "deny" and "approve" are
\* returned at once, "ask" opens the consent dialog
RequestConsent(t) ==
    LET mode == GetConsentMode(t)
    IN  IF mode = "never_allow" THEN "deny"
        ELSE IF developerMode /\ RiskLevel(t) = "safe" THEN "approve"
        ELSE IF mode = "always_allow" /\ CanBypass(t) THEN "approve"
        ELSE IF mode = "session_allow" /\ t \in sessionConsent THEN "approve"
        ELSE IF mode \in {"session_allow", "always_ask"} \/ ~CanBypass(t)
             THEN "ask"
        ELSE "deny"

\* the buttons ConsentDialog.onOpen creates for a tool
DialogButtons(t) ==
    IF CanBypass(t) THEN {"once", "session", "always", "deny"}
    ELSE {"once", "deny"}

\* ecall: the tool called, and as history the gates the call went through,
\* whether a dialog was opened, what requestConsent read (mode, developer
\* mode, session cache), how consent was settled, the number of
\* admissions when the call started, how tool.execute settled and the number
\* of audit entries the call appended
NoCall == [tool |-> "", gates |-> <<>>, prompted |-> FALSE, mode |-> "",
           dev |-> FALSE, inSession |-> FALSE, answer |-> "",
           admitAtStart |-> 0, outcome |-> "", logged |-> 0]

NoResult == [success |-> FALSE, error |-> "none"]

Failure(e) == [success |-> FALSE, error |-> e]

\* no call in progress (state after construction)
ExecIdle ==
    /\ enabledTools = {}
    /\ blockExternalRequests = FALSE
    /\ consentMode = <<>>
    /\ developerMode = FALSE
    /\ sessionConsent = {}
    /\ epc = "idle"
    /\ ecall = NoCall
    /\ eresult = NoResult
    /\ eparams = <<>>
    /\ auditLogs = <<>>
    /\ enableAuditLog = FALSE
    /\ logParameterValues = TRUE
    /\ anonymizeLog = FALSE

\* settings the user can have saved: every consent mode per tool (the two
\* search tools start with the same mode), one tool disabled or none
ExecInit ==
    /\ enabledTools \in {ExecTools, ExecTools \ {"web_fetch"}}
    /\ blockExternalRequests \in BOOLEAN
    /\ consentMode \in {m \in [ExecTools -> ConsentModes \cup {"unset"}] :
                           m["grep"] = m["find"]}
    /\ developerMode \in BOOLEAN
    /\ sessionConsent = {}
    /\ epc = "idle"
    /\ ecall = NoCall
    /\ eresult = NoResult
    /\ eparams = <<>>
    /\ auditLogs = <<>>
    /\ enableAuditLog = FALSE
    /\ logParameterValues = TRUE
    /\ anonymizeLog = FALSE

RateInitExec ==
    /\ now = 0
    /\ limits = <<>>
    /\ globalTimestamps = <<>>
    /\ rateLimits = [t \in ExecTools |-> 1]
    /\ globalRateLimit = 2
    /\ admitLog = <<>>
    /\ lastCheck = [called |-> FALSE, tool |-> "", at |-> 0, ok |-> FALSE,
                    seen |-> 0, gseen |-> 0]
    /\ rejectedTools = {}

\* the marker sanitizeLog stores in place of the parameters:
\* `{ _redacted: true }`
RedactedParams == [k \in {"_redacted"} |-> TRUE]

\* AuditLogger.anonymizeParams
AnonymizeParams(params) ==
    [k \in DOMAIN params |->
        IF k = "path" \/ k = "url" THEN "[REDACTED]" ELSE params[k]]

\* AuditLogger.sanitizeLog: the parameters of the entry stored
SanitizeLog(params) ==
    LET suppressed == IF ~logParameterValues THEN RedactedParams ELSE params
    IN  IF anonymizeLog THEN AnonymizeParams(suppressed) ELSE suppressed

\* AuditLogger.logExecution: the logs afterwards
LogExecution(logs, tool, id, params, success) ==
    IF ~enableAuditLog THEN logs
    ELSE Append(logs, [tool |-> tool, executionId |-> id,
                       parameters |-> SanitizeLog(params),
                       success |-> success])

\* the promise of executeWithConsent rejected
Rejected == [success |-> FALSE, error |-> "rejected"]

\* (variant of ExecuteResult: an exception of tool.execute is not caught)
ExecuteResultUncaught(outcome) ==
    CASE outcome = "success" -> [success |-> TRUE, error |-> ""]
      [] outcome = "failure" -> Failure("tool_failure")
      [] outcome = "throw" -> Rejected

\* the try/catch around `await tool.execute(params)`
ExecuteResult(outcome) ==
    CASE outcome = "success" -> [success |-> TRUE, error |-> ""]
      [] outcome = "failure" -> Failure("tool_failure")
      [] outcome = "throw" -> Failure("thrown")

\* executeWithConsent returns r
ExecReturn(c, r) ==
    /\ epc' = "idle"
    /\ ecall' = c
    /\ eresult' = r

\* (variant of ExecDenied: the denial is not logged)
ExecDeniedSilent(c, params) ==
    /\ auditLogs' = auditLogs
    /\ ExecReturn([c EXCEPT !.answer = "deny",
                            !.logged = Len(auditLogs') - Len(auditLogs)],
                  Failure("consent_denied"))

\* requestConsent answered false: logConsentDenied, then the failure
ExecDenied(c, params) ==
    /\ auditLogs' = LogExecution(auditLogs, c.tool, "denied", params, FALSE)
    /\ ExecReturn([c EXCEPT !.answer = "deny",
                            !.logged = Len(auditLogs') - Len(auditLogs)],
                  Failure("consent_denied"))

\* executeWithConsent from `rateLimiter.checkLimit` to the await of
\* tool.execute
ExecRateGate(c) ==
    /\ CheckLimit(c.tool)
    /\ IF lastCheck'.ok
       THEN /\ epc' = "executing"
            /\ ecall' = [c EXCEPT !.gates = c.gates \o <<"rate", "execute">>]
            /\ eresult' = NoResult
       ELSE ExecReturn([c EXCEPT !.gates = Append(c.gates, "rate")],
                       Failure("rate_limited"))
    /\ UNCHANGED auditLogs

\* executeWithConsent(toolName, params) up to its first suspension
ExecCallWith(name, params) ==
    /\ epc = "idle"
    /\ eparams' = params
    /\ LET c0 == [NoCall EXCEPT !.tool = name, !.gates = <<"resolve">>,
                                !.admitAtStart = Len(admitLog)]
       IN  IF name \notin ExecTools
           THEN /\ ExecReturn(c0, Failure("not_found"))
                /\ UNCHANGED <<varsRate, sessionConsent, auditLogs>>
           ELSE IF name \notin enabledTools
           THEN /\ ExecReturn([c0 EXCEPT !.gates = Append(c0.gates, "enabled")],
                              Failure("not_enabled"))
                /\ UNCHANGED <<varsRate, sessionConsent, auditLogs>>
           ELSE IF blockExternalRequests /\ IsNetworkTool(name)
           THEN /\ ExecReturn([c0 EXCEPT !.gates = c0.gates \o <<"enabled", "network">>],
                              Failure("network_blocked"))
                /\ UNCHANGED <<varsRate, sessionConsent, auditLogs>>
           ELSE LET c1 == [c0 EXCEPT
                             !.gates = c0.gates \o <<"enabled", "network", "consent">>,
                             !.mode = GetConsentMode(name),
                             !.dev = developerMode,
                             !.inSession = name \in sessionConsent]
                    d == RequestConsent(name)
                IN  /\ UNCHANGED sessionConsent
                    /\ CASE d = "deny" ->
                              /\ ExecDenied(c1, params)
                              /\ UNCHANGED varsRate
                         [] d = "approve" ->
                              ExecRateGate([c1 EXCEPT !.answer = "approve"])
                         [] d = "ask" ->
                              /\ epc' = "dialog"
                              /\ ecall' = [c1 EXCEPT !.prompted = TRUE]
                              /\ eresult' = NoResult
                              /\ UNCHANGED <<varsRate, auditLogs>>
    /\ UNCHANGED <<enabledTools, blockExternalRequests, consentMode,
                   developerMode, auditSettings>>

\* a patch list that replaces line 1
ValidPatches == <<[startLine |-> 1, endLine |-> 1, newContent |-> <<"b">>]>>

\* parameters the tool accepts
ValidParams(name) ==
    CASE name \in {"find", "grep"} -> [k \in {"pattern"} |-> "p"]
      [] name = "apply_patch" -> [k \in {"path", "patches"} |->
                                    IF k = "path" THEN "F" ELSE ValidPatches]
      [] name = "web_fetch" -> [k \in {"url"} |-> "https://h/p"]
      [] OTHER -> <<>>

\* executeWithConsent(toolName, params) with parameters the tool accepts
ExecCall(name) == ExecCallWith(name, ValidParams(name))

\* the user presses a button of the consent dialog: the response handler of
\* showConsentDialog, then executeWithConsent up to its next suspension
DialogRespond(resp) ==
    /\ epc = "dialog"
    /\ resp \in DialogButtons(ecall.tool)
    /\ sessionConsent' = IF resp = "session"
                         THEN sessionConsent \cup {ecall.tool} ELSE sessionConsent
    /\ consentMode' = IF resp = "always"
                      THEN [consentMode EXCEPT ![ecall.tool] = "always_allow"]
                      ELSE consentMode
    /\ IF resp = "deny"
       THEN /\ ExecDenied(ecall, eparams)
            /\ UNCHANGED varsRate
       ELSE ExecRateGate([ecall EXCEPT !.answer = resp])
    /\ UNCHANGED <<enabledTools, blockExternalRequests, developerMode,
                   eparams, auditSettings>>

ToolOutcomes == {"success", "failure", "throw"}

\* tool.execute settles; executeWithConsent logs and returns the result
ToolFinish(outcome) ==
    /\ epc = "executing"
    /\ auditLogs' = LogExecution(auditLogs, ecall.tool,
                                 IF outcome = "throw" THEN "unknown" ELSE "exec",
                                 eparams, outcome = "success")
    /\ ExecReturn([ecall EXCEPT !.gates = Append(ecall.gates, "audit"),
                                !.outcome = outcome,
                                !.logged = Len(auditLogs') - Len(auditLogs)],
                  ExecuteResult(outcome))
    /\ UNCHANGED <<varsRate, enabledTools, blockExternalRequests, consentMode,
                   developerMode, sessionConsent, eparams, auditSettings>>

\* the names a direct call is made with (grep is called by the find chain of
\* the conversation loop)
ExecNames == {"find", "apply_patch", "web_fetch", UnknownTool}

ExecStart == \E name \in ExecNames : ExecCall(name)

ExecDialog == \E resp \in {"once", "session", "always", "deny"} : DialogRespond(resp)

ExecFinish == \E o \in ToolOutcomes : ToolFinish(o)

\* the consent dropdown of the settings tab (ToolSettingsTab): the user
\* picks mode m for tool t, between two calls
SetConsentMode(t, m) ==
    /\ epc = "idle"
    /\ consentMode[t] # m
    /\ consentMode' = [consentMode EXCEPT ![t] = m]
    /\ UNCHANGED <<varsRate, enabledTools, blockExternalRequests,
                   developerMode, sessionConsent, epc, ecall, eresult,
                   eparams, auditLogs, auditSettings>>

\* the Developer Mode toggle of the settings tab
ToggleDeveloperMode ==
    /\ epc = "idle"
    /\ developerMode' = ~developerMode
    /\ UNCHANGED <<varsRate, enabledTools, blockExternalRequests, consentMode,
                   sessionConsent, epc, ecall, eresult, eparams, auditLogs,
                   auditSettings>>

\* ConsentManager.clearSessionConsent
ClearSessionConsent ==
    /\ sessionConsent # {}
    /\ sessionConsent' = {}
    /\ UNCHANGED <<varsRate, enabledTools, blockExternalRequests, consentMode,
                   developerMode, epc, ecall, eresult, eparams, auditLogs,
                   auditSettings>>

\* the tools whose session button the dialog offers and that are called
\* directly
SessionTools == {t \in ExecNames \cap ExecTools : CanBypass(t)}

\* DEFAULT_TOOL_SETTINGS.consentMode
DefaultConsentMode(t) ==
    IF t \in {"find", "grep", "read"} THEN "session_allow" ELSE "always_ask"

\* the default settings with every tool enabled; apply_patch, which has no
\* session button, may start with never_allow
ConsentInit ==
    /\ enabledTools = ExecTools
    /\ blockExternalRequests = FALSE
    /\ consentMode \in {m \in [ExecTools -> ConsentModes] :
                           /\ \A t \in ExecTools \ {"apply_patch"} :
                                 m[t] = DefaultConsentMode(t)
                           /\ m["apply_patch"] \in {DefaultConsentMode("apply_patch"),
                                                    "never_allow"}}
    /\ developerMode = FALSE
    /\ sessionConsent = {}
    /\ epc = "idle"
    /\ ecall = NoCall
    /\ eresult = NoResult
    /\ eparams = <<>>
    /\ auditLogs = <<>>
    /\ enableAuditLog = FALSE
    /\ logParameterValues = TRUE
    /\ anonymizeLog = FALSE

ExecSetMode == \E t \in SessionTools, m \in ConsentModes : SetConsentMode(t, m)



\* ------------------------------------------------------------------------
\* ApplyPatchTool (src/unnamed/part_003)
\* ------------------------------------------------------------------------
Min(a, b) == IF a < b THEN a ELSE b

Max(a, b) == IF a > b THEN a ELSE b

\* A content is the sequence of its lines (content.split('\n')): never empty,
\* the empty string is <<"">>.
EmptyContent == <<"">>

\* Array.prototype.splice(start, deleteCount, ...items), start >= 0
Splice(lines, start, deleteCount, items) ==
    LET st == Min(start, Len(lines))
        dc == Max(0, Min(deleteCount, Len(lines) - st))
    IN  SubSeq(lines, 1, st) \o items \o SubSeq(lines, st + dc + 1, Len(lines))

\* insert patch p behind the patches of sorted whose startLine is >= its own
RECURSIVE InsertDesc(_, _)
InsertDesc(sorted, p) ==
    IF sorted = <<>> THEN <<p>>
    ELSE IF Head(sorted).startLine >= p.startLine
         THEN <<Head(sorted)>> \o InsertDesc(Tail(sorted), p)
         ELSE <<p>> \o sorted

\* [...patches].sort((a, b) => b.startLine - a.startLine), a stable sort
RECURSIVE SortDesc(_)
SortDesc(ps) ==
    IF ps = <<>> THEN <<>>
    ELSE InsertDesc(SortDesc(SubSeq(ps, 1, Len(ps) - 1)), ps[Len(ps)])

\* the body of applyPatches' loop for one patch
ApplyOne(lines, patch) ==
    LET startIdx == Max(0, patch.startLine - 1)
        endIdx == Min(Len(lines), patch.endLine)
    IN  Splice(lines, startIdx, endIdx - startIdx, patch.newContent)

RECURSIVE ApplySorted(_, _)
ApplySorted(lines, sorted) ==
    IF sorted = <<>> THEN lines
    ELSE ApplySorted(ApplyOne(lines, Head(sorted)), Tail(sorted))

\* ApplyPatchTool.applyPatches
ApplyPatches(content, patches) == ApplySorted(content, SortDesc(patches))

\* inputs: line numbers, replacement texts, patch lists, paths
PatchLineNos == 0..2

NewContents == {<<"a">>, <<"b">>, <<"">>, <<"a", "b">>}

PatchOps == [startLine : PatchLineNos \ {0}, endLine : PatchLineNos,
             newContent : NewContents]

PatchLists == {<<>>} \cup {<<op>> : op \in PatchOps}
              \cup {<<o1, o2>> : o1 \in {op \in PatchOps : op.startLine = 1 /\ op.endLine = 1},
                                 o2 \in {op \in PatchOps : op.endLine = 2}}

PatchPaths == {"F", "", "missing.md", "folder"}

InitialContents == {<<"a">>, <<"a", "b">>, EmptyContent}

\* what the vault and the adapter can do to one execute call
PatchIO == {"ok", "read_fails", "backup_fails", "modify_fails"}

NoPatchCall == [id |-> 0, original |-> EmptyContent, patches |-> <<>>,
                before |-> EmptyContent]

\* presult: the operation, its success, its execution id and (history) the
\* content of F when the operation began and the number of audit entries
\* the operation appended
NoPatchResult == [op |-> "none", success |-> FALSE, id |-> 0,
                  before |-> EmptyContent, logged |-> 0]

PatchIdle ==
    /\ pfile = EmptyContent
    /\ backupEnabled = TRUE
    /\ pbackups = <<>>
    /\ undoStack = <<>>
    /\ pnext = 0
    /\ ppc = "idle"
    /\ pcur = NoPatchCall
    /\ presult = NoPatchResult
    /\ phist = <<>>

PatchInit ==
    /\ pfile \in InitialContents
    /\ backupEnabled \in BOOLEAN
    /\ pbackups = <<>>
    /\ undoStack = <<>>
    /\ pnext = 0
    /\ ppc = "idle"
    /\ pcur = NoPatchCall
    /\ presult = NoPatchResult
    /\ phist = <<>>

PatchFail(before) ==
    /\ ppc' = "idle"
    /\ pcur' = NoPatchCall
    /\ presult' = [op |-> "execute", success |-> FALSE, id |-> 0,
                   before |-> before, logged |-> 0]

\* (variant of CreateBackup: the backup is written with the patched content)
CreateBackupOfNew(id, content, patches) ==
    [e \in (DOMAIN pbackups) \cup {id} |->
        IF e = id THEN ApplyPatches(content, patches) ELSE pbackups[e]]

\* ApplyPatchTool.createBackup: the adapter's files once
\* adapter.write(backupPath, content) is done
CreateBackup(id, content, patches) ==
    [e \in (DOMAIN pbackups) \cup {id} |->
        IF e = id THEN content ELSE pbackups[e]]

\* ApplyPatchTool.execute from its start to the end of createBackup
PatchBegin(path, patches, io) ==
    /\ ppc = "idle"
    /\ pnext < MaxExec
    /\ io \in {"ok", "read_fails", "backup_fails"}
    /\ IF path = "" \/ patches = <<>> \/ path \in {"missing.md", "folder"}
          \/ io = "read_fails"
       THEN PatchFail(pfile) /\ UNCHANGED <<pbackups, pnext>>
       ELSE LET id == pnext + 1
            IN  /\ pnext' = id
                /\ IF backupEnabled /\ io = "backup_fails"
                   THEN PatchFail(pfile) /\ UNCHANGED pbackups
                   ELSE /\ pbackups' = IF backupEnabled
                                       THEN CreateBackup(id, pfile, patches)
                                       ELSE pbackups
                        /\ ppc' = "modify"
                        /\ pcur' = [id |-> id, original |-> pfile,
                                    patches |-> patches, before |-> pfile]
                        /\ presult' = NoPatchResult
    /\ UNCHANGED <<pfile, backupEnabled, undoStack, phist>>

\* ApplyPatchTool.execute from applyPatches to its return
PatchCommit(io) ==
    /\ ppc = "modify"
    /\ io \in {"ok", "modify_fails"}
    /\ IF io = "modify_fails"
       THEN PatchFail(pcur.before) /\ UNCHANGED <<pfile, undoStack, phist>>
       ELSE LET newContent == ApplyPatches(pcur.original, pcur.patches)
                id == pcur.id
            IN  /\ pfile' = newContent
                /\ undoStack' = [e \in (DOMAIN undoStack) \cup {id} |->
                                   IF e = id THEN pcur.original ELSE undoStack[e]]
                /\ phist' = [e \in (DOMAIN phist) \cup {id} |->
                               IF e = id
                               THEN [pre |-> pfile, post |-> newContent,
                                     backedUp |-> id \in DOMAIN pbackups,
                                     backup |-> IF id \in DOMAIN pbackups
                                                THEN pbackups[id] ELSE EmptyContent]
                               ELSE phist[e]]
                /\ ppc' = "idle"
                /\ pcur' = NoPatchCall
                /\ presult' = [op |-> "execute", success |-> TRUE, id |-> id,
                               before |-> pcur.before, logged |-> 0]
    /\ UNCHANGED <<backupEnabled, pbackups, pnext>>

\* ToolRegistry.undo('apply_patch', executionId) -> ApplyPatchTool.undo,
\* then logUndo
PatchUndo(id) ==
    /\ ppc = "idle"
    /\ IF id \notin DOMAIN undoStack \/ undoStack[id] = EmptyContent
       THEN /\ presult' = [op |-> "undo", success |-> FALSE, id |-> id,
                           before |-> pfile, logged |-> 0]
            /\ UNCHANGED <<undoStack, auditLogs>>
       ELSE /\ undoStack' = [e \in (DOMAIN undoStack) \ {id} |-> undoStack[e]]
            /\ auditLogs' = LogExecution(auditLogs, "apply_patch", "undo",
                                         [k \in {"originalExecutionId"} |-> id],
                                         TRUE)
            /\ presult' = [op |-> "undo", success |-> TRUE, id |-> id,
                           before |-> pfile,
                           logged |-> Len(auditLogs') - Len(auditLogs)]
    /\ UNCHANGED <<pfile, backupEnabled, pbackups, pnext, ppc, pcur, phist>>

PatchStart == \E path \in PatchPaths, patches \in PatchLists, io \in PatchIO :
                 PatchBegin(path, patches, io)

PatchEnd == \E io \in PatchIO : PatchCommit(io)

PatchUndoCall == \E id \in 1..MaxExec : PatchUndo(id)


\* ------------------------------------------------------------------------
\* ToolRegistry calls with their parameters, tool.execute of each tool and
\* the audit log (src/src/tools/AuditLogger.ts, GrepTool.ts, FindTool.ts,
\* WebFetchTool.ts, src/unnamed/part_003)
\* ------------------------------------------------------------------------
\* `params[key]`, with the value the tool reads for a missing key
ParamOr(params, key, default) ==
    IF key \in DOMAIN params THEN params[key] ELSE default

\* parameter maps of grep: none, a pattern, a pattern that is no regular
\* expression, a pattern with a list of files (the list of the one path
\* x/a.md, written as that path)
GrepParams ==
    {<<>>,
     [k \in {"pattern"} |-> "p"],
     [k \in {"pattern"} |-> "("],
     [k \in {"pattern", "fileList"} |->
        IF k = "pattern" THEN "p" ELSE "x/a.md"]}

\* parameter maps of apply_patch: none, the file F, a path without file, a
\* folder, and F without patches
ApplyPatchParams ==
    {<<>>}
    \cup {[k \in {"path", "patches"} |-> IF k = "path" THEN path ELSE ValidPatches] :
             path \in {"F", "missing.md", "folder"}}
    \cup {[k \in {"path", "patches"} |-> IF k = "path" THEN "F" ELSE <<>>]}

\* parameter maps of web_fetch
WebFetchParams == {<<>>, [k \in {"url"} |-> "https://h/p"]}

AuditParams(name) ==
    CASE name = "grep" -> GrepParams
      [] name = "apply_patch" -> ApplyPatchParams
      [] name = "web_fetch" -> WebFetchParams
      [] OTHER -> {<<>>, [k \in {"path"} |-> "F"]}

\* `new RegExp(pattern, 'gm')` does not throw
IsRegExp(pattern) == pattern # "("

\* GrepTool.execute / FindTool.execute: how the call can settle
SearchExecute(params) ==
    LET pattern == ParamOr(params, "pattern", "")
    IN  IF pattern = "" THEN {"failure"}
        ELSE IF ~IsRegExp(pattern) THEN {"failure"}
        ELSE ToolOutcomes

\* WebFetchTool.execute: how the call can settle
WebFetchExecute(params) ==
    IF ParamOr(params, "url", "") = "" THEN {"failure"} ELSE ToolOutcomes

\* tool.execute(params) of the tools but apply_patch
ToolExecute(name, params) ==
    IF name = "web_fetch" THEN WebFetchExecute(params)
    ELSE SearchExecute(params)

\* the names the registry is called with
AuditNames == {"grep", "apply_patch", "web_fetch", UnknownTool}

\* executeWithConsent(name, params)
AuditCall ==
    /\ Len(auditLogs) < MaxLogs
    /\ \E name \in AuditNames :
         \E params \in AuditParams(name) : ExecCallWith(name, params)
    /\ UNCHANGED varsPatch

\* tool.execute of grep or web_fetch settles
AuditFinish ==
    /\ epc = "executing"
    /\ ecall.tool # "apply_patch"
    /\ \E o \in ToolExecute(ecall.tool, eparams) : ToolFinish(o)
    /\ UNCHANGED varsPatch

\* ApplyPatchTool.execute up to its await of vault.modify, or to its
\* failure
AuditPatchBegin ==
    /\ epc = "executing"
    /\ ecall.tool = "apply_patch"
    /\ ppc = "idle"
    /\ \E io \in PatchIO :
         PatchBegin(ParamOr(eparams, "path", ""),
                    ParamOr(eparams, "patches", <<>>), io)
    /\ IF ppc' = "modify"
       THEN UNCHANGED <<varsRate, varsExec>>
       ELSE ToolFinish("failure")

\* ApplyPatchTool.execute returns
AuditPatchCommit ==
    /\ epc = "executing"
    /\ ecall.tool = "apply_patch"
    /\ ppc = "modify"
    /\ \E io \in PatchIO : PatchCommit(io)
    /\ ToolFinish(IF presult'.success THEN "success" ELSE "failure")

\* ToolRegistry.undo(toolName, executionId)
RegistryUndo(name, id) ==
    IF name = "apply_patch"
    THEN PatchUndo(id)
    ELSE /\ ppc = "idle"
         /\ presult' = [op |-> "undo", success |-> FALSE, id |-> id,
                        before |-> pfile, logged |-> 0]
         /\ UNCHANGED <<pfile, backupEnabled, pbackups, undoStack, pnext, ppc,
                        pcur, phist, auditLogs>>

\* ToolRegistry.undo is called between two executeWithConsent calls
AuditUndo ==
    /\ epc = "idle"
    /\ \E name \in {"apply_patch", "grep"}, id \in 1..MaxExec :
         RegistryUndo(name, id)
    /\ UNCHANGED <<varsRate, varsExecNoLogs>>

\* settings with every tool enabled, grep and apply_patch allowed or
\* blocked (apply_patch asks under always_allow), and every choice of the
\* audit settings; the file F holds one line
AuditInit ==
    /\ enabledTools = ExecTools
    /\ blockExternalRequests = FALSE
    /\ consentMode \in {m \in [ExecTools -> {"always_allow", "never_allow"}] :
                           m["find"] = "always_allow"
                           /\ m["web_fetch"] = "always_allow"}
    /\ developerMode = FALSE
    /\ sessionConsent = {}
    /\ epc = "idle"
    /\ ecall = NoCall
    /\ eresult = NoResult
    /\ eparams = <<>>
    /\ auditLogs = <<>>
    /\ enableAuditLog \in BOOLEAN
    /\ logParameterValues \in BOOLEAN
    /\ anonymizeLog \in BOOLEAN
    /\ PatchInit
    /\ pfile = <<"a">>
    /\ ~backupEnabled


\* ------------------------------------------------------------------------
\* LonelyAssistantView: sendMessage, streamCompletion, cancelStream and the
\* idle watchdog.  Texts are sequences of parts; every stream delivers at
\* most one content chunk.
\* ------------------------------------------------------------------------
Cancelled == "Request cancelled"

NoResponse == "No response received from model."

EndedUnexpectedly == "(response ended unexpectedly)"

ErrorText == "Error: message"

ToolFailed == "[Tool execution failed: message]"

Streams == {"stream1", "restream", "fallback"}

\* the text a request of the send delivers
StageText(stage) ==
    CASE stage = "stream1" -> "t1"
      [] stage = "restream" -> "t2"
      [] stage = "fallback" -> "t3"
      [] stage = "once" -> "t4"

Texts == {"t1", "t2", "t3", "t4"}

\* tool_calls of a model response
ToolCallLists == {<<"find">>, <<"apply_patch">>, <<"find", "apply_patch">>}

\* !text || !text.trim()
IsBlank(text) == text = <<>>

\* history of the send in progress: the requests made to the model
\* (fallbacks: the streaming requests without tools, onces: the chatOnce
\* requests), the tool executions, whether the for-of loop over the tool
\* calls was entered (tools) and whether responseText was blank at the
\* re-ask test (blank), and the streamCompletion calls past their guard
\* that have not returned (active)
NoHist == [requests |-> 0, execs |-> 0, cancelled |-> FALSE,
           timedOut |-> FALSE, failed |-> FALSE, execAfterCancel |-> FALSE,
           got |-> <<>>, ended |-> FALSE, tools |-> FALSE, blank |-> FALSE,
           fallbacks |-> 0, onces |-> 0, active |-> 0]

\* no send was made (state after onOpen)
LoopIdle ==
    /\ lpc = "idle"
    /\ isStreaming = FALSE
    /\ aborted = FALSE
    /\ assistantContent = <<>>
    /\ responseText = <<>>
    /\ chunksReceived = 0
    /\ finalCalls = <<>>
    /\ queue = <<>>
    /\ toolName = ""
    /\ pendingContext = FALSE
    /\ alwaysTools = FALSE
    /\ sends = 0
    /\ lhist = NoHist

\* the view of a fresh conversation, in front of either kind of model
LoopInit ==
    /\ lpc = "idle"
    /\ isStreaming = FALSE
    /\ aborted = FALSE
    /\ assistantContent = <<>>
    /\ responseText = <<>>
    /\ chunksReceived = 0
    /\ finalCalls = <<>>
    /\ queue = <<>>
    /\ toolName = ""
    /\ pendingContext = FALSE
    /\ alwaysTools \in BOOLEAN
    /\ sends = 0
    /\ lhist = NoHist

\* the settings of the conversation runs: every tool enabled, consent asked
\* for every tool or granted for the search tools
ExecInitLoop ==
    /\ enabledTools = ExecTools
    /\ blockExternalRequests = FALSE
    /\ consentMode \in {[t \in ExecTools |-> "unset"],
                        [t \in ExecTools |->
                           IF t = "apply_patch" THEN "unset" ELSE "always_allow"]}
    /\ developerMode = FALSE
    /\ sessionConsent = {}
    /\ epc = "idle"
    /\ ecall = NoCall
    /\ eresult = NoResult
    /\ eparams = <<>>
    /\ auditLogs = <<>>
    /\ enableAuditLog = FALSE
    /\ logParameterValues = TRUE
    /\ anonymizeLog = FALSE

\* assignment of the locals and fields of the send
SetLoop(pc, streaming, ab, c, rt, n, calls, q, tn, pctx, h) ==
    /\ lpc' = pc
    /\ isStreaming' = streaming
    /\ aborted' = ab
    /\ assistantContent' = c
    /\ responseText' = rt
    /\ chunksReceived' = n
    /\ finalCalls' = calls
    /\ queue' = q
    /\ toolName' = tn
    /\ pendingContext' = pctx
    /\ lhist' = h

\* (variant of Finish: the finally block leaves an empty content as it is)
FinishKeepEmpty(c, n, h) ==
    SetLoop("idle", FALSE, FALSE, c, <<>>, 0, <<>>, <<>>, "", FALSE,
            [h EXCEPT !.ended = TRUE, !.active = @ - 1])

\* the finally block: streamCompletion returns with assistantMessage.content
\* c and chunksReceived n
Finish(c, n, h) ==
    SetLoop("idle", FALSE, FALSE,
            IF IsBlank(c)
            THEN <<IF n > 0 THEN EndedUnexpectedly ELSE NoResponse>>
            ELSE c,
            <<>>, 0, <<>>, <<>>, "", FALSE,
            [h EXCEPT !.ended = TRUE, !.active = @ - 1])

\* the re-ask fallback test and, when it is taken, the fallback request
ReAsk(rt, c, n, pctx, calls, h) ==
    LET hb == [h EXCEPT !.blank = IsBlank(rt)]
    IN  IF IsBlank(rt) /\ (pctx \/ calls # <<>>)
        THEN IF aborted
             THEN Finish(<<>>, 0, hb)
             ELSE SetLoop("fallback", TRUE, FALSE, <<>>, <<>>, 0, calls, <<>>,
                          "", pctx,
                          [hb EXCEPT !.requests = @ + 1, !.fallbacks = @ + 1])
        ELSE Finish(c, n, hb)

\* catch (toolError): the failure text, break, then the fallback test
InnerCatch(rt, pctx, h) ==
    ReAsk(rt, rt \o <<ToolFailed>>, chunksReceived, pctx, finalCalls, h)

\* after a tool result: reset the text and open the re-stream
Restream(pctx, h) ==
    IF aborted
    THEN InnerCatch(<<>>, pctx, h)
    ELSE SetLoop("restream", TRUE, FALSE, <<>>, <<>>, chunksReceived,
                 finalCalls, queue, toolName, pctx,
                 [h EXCEPT !.requests = @ + 1])

\* history: tool.execute was started by this step
HistExec(h) ==
    IF epc' = "executing"
    THEN [h EXCEPT !.execs = @ + 1,
                   !.execAfterCancel = @ \/ h.cancelled]
    ELSE h

\* history: the for-of loop over the tool calls was entered
HistTools(h) == [h EXCEPT !.tools = TRUE]

\* the for-of loop reaches tool call tn: executeWithConsent(tn) is called
StartTool(tn, rest, calls) ==
    /\ ExecCall(tn)
    /\ SetLoop("tool", TRUE, aborted, assistantContent, responseText, chunksReceived,
               calls, rest, tn, pendingContext, HistTools(HistExec(lhist)))

\* the continuation of the loop runs in the task that settled the tool
\* call: no other handler runs in between
Transient == lpc \in {"tool", "grep"} /\ epc = "idle"

\* (variant of SendGuard: a send is started whatever isStreaming is)
SendGuardNone == TRUE

\* if (this.isStreaming) return, of sendMessage, askModel and
\* streamCompletion
SendGuard == ~isStreaming

\* sendMessage or askModel: streamCompletion up to the first model stream
LoopSend ==
    /\ SendGuard
    /\ sends < MaxSends
    /\ sends' = sends + 1
    /\ \E ctx \in BOOLEAN :
         SetLoop("stream1", TRUE, FALSE, <<>>, <<>>, 0, <<>>, <<>>, "", ctx,
                 [NoHist EXCEPT !.requests = 1, !.active = lhist.active + 1])
    /\ UNCHANGED <<alwaysTools, varsRate, varsExec>>

\* sendMessage or askModel when resolveMentions, getChunksForFiles or
\* getContextForMessage throws: no assistant message exists yet, the catch
\* block appends one holding the error text, and finally ends the send
\* without a request to the model
LoopSendFail ==
    /\ SendGuard
    /\ sends < MaxSends
    /\ sends' = sends + 1
    /\ SetLoop("idle", FALSE, FALSE, <<ErrorText>>, <<>>, 0, <<>>, <<>>, "",
               FALSE, [NoHist EXCEPT !.failed = TRUE, !.ended = TRUE,
                                     !.active = lhist.active])
    /\ UNCHANGED <<alwaysTools, varsRate, varsExec>>

\* a content chunk of the open stream
LoopChunk ==
    /\ lpc \in Streams
    /\ ~aborted
    /\ IsBlank(responseText)
    /\ SetLoop(lpc, TRUE, FALSE, <<StageText(lpc)>>, <<StageText(lpc)>>,
               chunksReceived + 1, finalCalls, queue, toolName,
               pendingContext,
               [lhist EXCEPT !.got = Append(@, StageText(lpc))])
    /\ UNCHANGED <<alwaysTools, sends, varsRate, varsExec>>

\* (variant of BreakLoop: the break is never taken)
BreakLoopNever(calls) == FALSE

\* if (finalMessage?.tool_calls && finalMessage.tool_calls.length > 0) break
BreakLoop(calls) == calls # <<>>

\* the open stream ends with a final message carrying tool_calls `calls`
StreamEnd(calls) ==
    /\ lpc \in Streams
    /\ ~aborted
    /\ alwaysTools => calls # <<>>
    /\ CASE lpc = "stream1" ->
              IF calls # <<>>
              THEN StartTool(Head(calls), Tail(calls), calls)
              ELSE /\ ReAsk(responseText, assistantContent, chunksReceived,
                            pendingContext, calls, lhist)
                   /\ UNCHANGED <<varsRate, varsExec>>
         [] lpc = "restream" ->
              IF ~BreakLoop(calls) /\ queue # <<>>
              THEN StartTool(Head(queue), Tail(queue), calls)
              ELSE /\ ReAsk(responseText, assistantContent, chunksReceived,
                            pendingContext, calls, lhist)
                   /\ UNCHANGED <<varsRate, varsExec>>
         [] lpc = "fallback" ->
              /\ calls = finalCalls
              /\ IF IsBlank(responseText)
                 THEN SetLoop("once", TRUE, FALSE, assistantContent,
                              responseText, chunksReceived, finalCalls, queue,
                              toolName, pendingContext,
                              [lhist EXCEPT !.requests = @ + 1,
                                            !.onces = @ + 1])
                 ELSE Finish(assistantContent, chunksReceived, lhist)
              /\ UNCHANGED <<varsRate, varsExec>>
    /\ UNCHANGED <<alwaysTools, sends>>

LoopStreamEnd == \E calls \in ToolCallLists \cup {<<>>} : StreamEnd(calls)

\* the open stream throws: AbortError once the signal is aborted, a
\* communication error otherwise
LoopStreamThrow ==
    /\ lpc \in Streams
    /\ LET h == IF aborted THEN lhist ELSE [lhist EXCEPT !.failed = TRUE]
       IN  IF lpc = "restream"
           THEN InnerCatch(responseText, pendingContext, h)
           ELSE IF aborted
           THEN Finish(assistantContent, chunksReceived, h)
           ELSE Finish(<<ErrorText>>, chunksReceived, h)
    /\ UNCHANGED <<alwaysTools, sends, varsRate, varsExec>>

OnceOutcomes == {"content", "empty", "error"}

\* chatOnce settles
LoopOnce ==
    /\ lpc = "once"
    /\ \E o \in OnceOutcomes :
         IF ~aborted /\ o = "content"
         THEN Finish(<<StageText("once")>>, chunksReceived,
                     [lhist EXCEPT !.got = Append(@, StageText("once"))])
         ELSE Finish(assistantContent, chunksReceived,
                     IF ~aborted /\ o = "error"
                     THEN [lhist EXCEPT !.failed = TRUE] ELSE lhist)
    /\ UNCHANGED <<alwaysTools, sends, varsRate, varsExec>>

\* the user answers the consent dialog of the tool call in progress
LoopDialog ==
    /\ lpc \in {"tool", "grep"}
    /\ ExecDialog
    /\ lhist' = HistExec(lhist)
    /\ UNCHANGED <<lpc, isStreaming, aborted, assistantContent, responseText,
                   chunksReceived, finalCalls, queue, toolName,
                   pendingContext, alwaysTools, sends>>

\* tool.execute of the tool call in progress settles
LoopToolFinish ==
    /\ lpc \in {"tool", "grep"}
    /\ ExecFinish
    /\ UNCHANGED varsLoop

MentionOutcomes == {"none", "chunks", "throw"}

\* executeWithConsent(toolName) has returned: the find follow-up
\* (getChunksForFiles, chained grep), then the re-stream
LoopToolReturn ==
    /\ lpc = "tool"
    /\ epc = "idle"
    /\ IF toolName = "find" /\ eresult.success
       THEN \E mention \in MentionOutcomes, pattern \in BOOLEAN :
              IF mention = "throw"
              THEN /\ InnerCatch(responseText, pendingContext,
                                 [lhist EXCEPT !.failed = TRUE])
                   /\ UNCHANGED <<varsRate, varsExec>>
              ELSE IF pattern
              THEN /\ ExecCall("grep")
                   /\ SetLoop("grep", TRUE, aborted, assistantContent,
                              responseText, chunksReceived, finalCalls, queue,
                              toolName, pendingContext \/ mention = "chunks",
                              HistExec(lhist))
              ELSE /\ Restream(pendingContext \/ mention = "chunks", lhist)
                   /\ UNCHANGED <<varsRate, varsExec>>
       ELSE /\ Restream(pendingContext, lhist)
            /\ UNCHANGED <<varsRate, varsExec>>
    /\ UNCHANGED <<alwaysTools, sends>>

\* the chained executeWithConsent('grep') has returned
LoopGrepReturn ==
    /\ lpc = "grep"
    /\ epc = "idle"
    /\ \E matches \in BOOLEAN :
         Restream(pendingContext \/ (eresult.success /\ matches), lhist)
    /\ UNCHANGED <<alwaysTools, sends, varsRate, varsExec>>

\* cancelStream (the Cancel button)
LoopCancel ==
    /\ isStreaming
    /\ ~Transient
    /\ SetLoop(lpc, TRUE, TRUE,
               IF assistantContent = <<>> THEN <<Cancelled>>
               ELSE assistantContent,
               responseText, chunksReceived, finalCalls, queue, toolName,
               FALSE, [lhist EXCEPT !.cancelled = TRUE])
    /\ UNCHANGED <<alwaysTools, sends, varsRate, varsExec>>

\* (variant of LoopTimeout: the timer shows the notice without aborting)
LoopTimeoutNoticeOnly ==
    /\ isStreaming
    /\ ~Transient
    /\ ~aborted
    /\ SetLoop(lpc, TRUE, aborted, assistantContent, responseText,
               chunksReceived, finalCalls, queue, toolName, pendingContext,
               [lhist EXCEPT !.timedOut = TRUE])
    /\ UNCHANGED <<alwaysTools, sends, varsRate, varsExec>>

\* the idle timer set by resetIdle fires
LoopTimeout ==
    /\ isStreaming
    /\ ~Transient
    /\ ~aborted
    /\ SetLoop(lpc, TRUE, TRUE, assistantContent, responseText,
               chunksReceived, finalCalls, queue, toolName, pendingContext,
               [lhist EXCEPT !.timedOut = TRUE])
    /\ UNCHANGED <<alwaysTools, sends, varsRate, varsExec>>

\* ------------------------------------------------------------------------
\* RAGService: chunking, the chunk store, vault events, rebuild and the
\* index snapshot.  A path is a sequence of tokens, a content a sequence of
\* lines, a line a record of its leading '#' count, whether it is indented,
\* its text and its length.  The fields contentLower and updated of a chunk
\* are not modelled.
\* ------------------------------------------------------------------------
\* a path without file
NoFile == [exists |-> FALSE, lines |-> <<>>]

\* a file with content `lines`
File(lines) == [exists |-> TRUE, lines |-> lines]

\* INDEX_FILE does not exist
NoIndex == [exists |-> FALSE, chunks |-> <<>>]

\* INDEX_FILE as flushIndex writes it
Snapshot(cs) == [exists |-> TRUE, chunks |-> cs]

PathA == <<"a", ".", "md">>

PathXA == <<"x", "/", "a", ".", "md">>

PathTxt == <<"a", ".", "txt">>

Paths == {PathA, PathXA, PathTxt}

\* getMarkdownFiles lists the files in this order
PathOrder == <<PathA, PathXA, PathTxt>>

\* TFile.extension
Extension(path) ==
    IF Len(path) >= 2 /\ path[Len(path) - 1] = "." THEN path[Len(path)] ELSE ""

\* String.startsWith
StartsWith(path, prefix) ==
    Len(prefix) <= Len(path) /\ SubSeq(path, 1, Len(prefix)) = prefix

FolderX == <<"x">>

ExcludeChoices == {{}, {FolderX}}

Heading1 == [hashes |-> 1, indent |-> FALSE, text |-> "A", len |-> 3]

LineP == [hashes |-> 0, indent |-> FALSE, text |-> "p", len |-> 1]

LineQ == [hashes |-> 0, indent |-> FALSE, text |-> "q", len |-> 1]

BlankLine == [hashes |-> 0, indent |-> FALSE, text |-> "", len |-> 0]

LongLine == [hashes |-> 0, indent |-> FALSE, text |-> "L", len |-> 500]

DocText == <<LineP, BlankLine, Heading1, LineQ>>

DocLong == <<LongLine, LongLine>>

DocBlank == <<BlankLine>>

Contents == {DocText, DocLong, DocBlank}

\* a chunk is closed when the joined text is longer than this
ChunkLimit == 800

\* line.trim().startsWith('#')
IsHeadingLine(line) == line.hashes > 0

\* updateHeadings: the regex needs the '#' at the start of the raw line
UpdateHeadings(existing, line) ==
    IF line.indent \/ line.hashes = 0
    THEN existing
    ELSE SubSeq(existing, 1, Min(line.hashes - 1, Len(existing)))
         \o <<line.text>>

RECURSIVE TrimStart(_)
\* String.trim at the front: leading blank lines go
TrimStart(lines) ==
    IF lines # <<>> /\ Head(lines).len = 0 THEN TrimStart(Tail(lines)) ELSE lines

RECURSIVE TrimEnd(_)
\* String.trim at the back: trailing blank lines go
TrimEnd(lines) ==
    IF lines # <<>> /\ lines[Len(lines)].len = 0
    THEN TrimEnd(SubSeq(lines, 1, Len(lines) - 1))
    ELSE lines

Trim(lines) == TrimEnd(TrimStart(lines))

RECURSIVE JoinedLength(_)
\* current.join('\n').length
JoinedLength(lines) ==
    IF lines = <<>> THEN 0
    ELSE IF Len(lines) = 1 THEN Head(lines).len
    ELSE Head(lines).len + 1 + JoinedLength(Tail(lines))

\* the locals of chunkFile
ChunkStart0 == [chunks |-> <<>>, current |-> <<>>, headings |-> <<>>,
                chunkIndex |-> 0, offset |-> 0, chunkStart |-> 0]

\* pushChunk
PushChunk(path, st) ==
    LET text == Trim(st.current)
    IN  IF text = <<>>
        THEN [st EXCEPT !.current = <<>>]
        ELSE [st EXCEPT
                !.chunks = Append(@, [id |-> <<path, st.chunkIndex>>,
                                      file |-> path,
                                      headings |-> st.headings,
                                      content |-> text,
                                      start |-> st.chunkStart,
                                      end |-> st.offset]),
                !.chunkIndex = @ + 1,
                !.current = <<>>,
                !.chunkStart = st.offset]

\* one iteration of the loop over the lines
ChunkLine(path, st, line) ==
    LET s1 == IF IsHeadingLine(line)
              THEN [PushChunk(path, st) EXCEPT
                      !.headings = UpdateHeadings(st.headings, line)]
              ELSE LET s0 == [st EXCEPT !.current = Append(@, line)]
                   IN  IF JoinedLength(s0.current) > ChunkLimit
                       THEN PushChunk(path, s0)
                       ELSE s0
    IN  [s1 EXCEPT !.offset = @ + line.len + 1]

RECURSIVE ChunkLines(_, _, _)
ChunkLines(path, lines, st) ==
    IF lines = <<>> THEN st
    ELSE ChunkLines(path, Tail(lines), ChunkLine(path, st, Head(lines)))

\* chunkFile(file, content)
ChunkFile(path, lines) ==
    PushChunk(path, ChunkLines(path, lines, ChunkStart0)).chunks

\* isExcluded(file, excluded)
IsExcluded(path, excluded) ==
    \E folder \in excluded : folder # <<>> /\ StartsWith(path, folder)

\* chunks.filter((chunk) => chunk.file !== filePath)
RemoveFile(cs, path) == SelectSeq(cs, LAMBDA c : c.file # path)

\* the chunks of one file, in store order
FileChunks(cs, path) == SelectSeq(cs, LAMBDA c : c.file = path)

\* the elements of a sequence
Range(seq) == {seq[i] : i \in 1..Len(seq)}

\* Map.set
MapSet(map, key, value) ==
    [k \in DOMAIN map \cup {key} |-> IF k = key THEN value ELSE map[k]]

\* Map.delete
MapDelete(map, key) == [k \in DOMAIN map \ {key} |-> map[k]]

\* setChunks(chunks)
SetChunks(cs) ==
    [chunks |-> cs,
     byFile |-> [path \in {cs[i].file : i \in 1..Len(cs)} |-> FileChunks(cs, path)]]

\* replaceFileChunks(filePath, newChunks)
ReplaceFileChunks(store, path, newChunks) ==
    [chunks |-> RemoveFile(store.chunks, path) \o newChunks,
     byFile |-> MapSet(store.byFile, path, newChunks)]

\* removeFileChunks(filePath)
RemoveFileChunks(store, path) ==
    [chunks |-> RemoveFile(store.chunks, path),
     byFile |-> MapDelete(store.byFile, path)]

\* handleFileChange(file) on vault content v: the new store and whether
\* scheduleSave was called
HandleFileChange(store, path, v) ==
    IF ~ragEnabled \/ Extension(path) # "md"
    THEN [store |-> store, save |-> FALSE]
    ELSE IF IsExcluded(path, ragExcludeFolders)
    THEN [store |-> RemoveFileChunks(store, path), save |-> TRUE]
    ELSE [store |-> ReplaceFileChunks(store, path, ChunkFile(path, v[path].lines)),
          save |-> TRUE]

\* ensureFileChunks(filePath) on vault content v: the new store and whether
\* scheduleSave was called
EnsureFileChunks(store, path, v) ==
    IF path \in DOMAIN store.byFile /\ store.byFile[path] # <<>>
    THEN [store |-> store, save |-> FALSE]
    ELSE IF v[path] = NoFile \/ Extension(path) # "md"
    THEN [store |-> store, save |-> FALSE]
    ELSE IF ragEnabled
    THEN [store |-> ReplaceFileChunks(store, path, ChunkFile(path, v[path].lines)),
          save |-> TRUE]
    ELSE [store |-> [store EXCEPT !.byFile =
                        MapSet(@, path, ChunkFile(path, v[path].lines))],
          save |-> FALSE]

RECURSIVE EnsureAll(_, _, _)
\* the loop of getChunksForFiles over the paths
EnsureAll(r, filePaths, v) ==
    IF filePaths = <<>> THEN r
    ELSE LET r1 == EnsureFileChunks(r.store, Head(filePaths), v)
         IN  EnsureAll([store |-> r1.store, save |-> r.save \/ r1.save],
                       Tail(filePaths), v)

\* (variant of GetMarkdownFiles: every file of the vault)
GetAllFiles(v) == SelectSeq(PathOrder, LAMBDA path : v[path] # NoFile)

\* vault.getMarkdownFiles()
GetMarkdownFiles(v) ==
    SelectSeq(PathOrder, LAMBDA path : v[path] # NoFile /\ Extension(path) = "md")

RECURSIVE RebuildOver(_, _)
\* the loop of rebuildIndex over `files`, with no event in between
RebuildOver(files, v) ==
    IF files = <<>> THEN <<>>
    ELSE (IF IsExcluded(Head(files), ragExcludeFolders)
          THEN <<>>
          ELSE ChunkFile(Head(files), v[Head(files)].lines))
         \o RebuildOver(Tail(files), v)

\* the chunks rebuildIndex computes for vault content v
RebuildChunks(v) == RebuildOver(GetMarkdownFiles(v), v)

CurrentStore == [chunks |-> chunks, byFile |-> chunksByFile]

NoRagHist == [base |-> "rebuilt", handled |-> {}, plain |-> TRUE,
              rclean |-> TRUE, fresh |-> FALSE, toggle |-> "none",
              wiped |-> FALSE, raced |-> {}]

\* an empty vault and an empty store
RagIdle ==
    /\ vault = [path \in Paths |-> NoFile]
    /\ ragEnabled = TRUE
    /\ ragExcludeFolders = {}
    /\ chunks = <<>>
    /\ chunksByFile = <<>>
    /\ saveTimeout = FALSE
    /\ indexFile = NoIndex
    /\ rpc = "idle"
    /\ rfiles = <<>>
    /\ racc = <<>>
    /\ events = 0
    /\ rhist = NoRagHist

\* the vaults the runs start from
InitialVaults ==
    {v \in [Paths -> {File(c) : c \in Contents} \cup {NoFile}] :
        /\ v[PathXA] \in {NoFile, File(DocText)}
        /\ v[PathTxt] \in {NoFile, File(DocText)}}

\* the service after initialize() on a vault without snapshot: loadIndex
\* found nothing and rebuildIndex filled and flushed the store
RagInit ==
    /\ vault \in InitialVaults
    /\ ragEnabled = TRUE
    /\ ragExcludeFolders \in ExcludeChoices
    /\ chunks = RebuildChunks(vault)
    /\ chunksByFile = SetChunks(chunks).byFile
    /\ saveTimeout = FALSE
    /\ indexFile = Snapshot(chunks)
    /\ rpc = "idle"
    /\ rfiles = <<>>
    /\ racc = <<>>
    /\ events = 0
    /\ rhist = [NoRagHist EXCEPT !.fresh = TRUE]

\* the handler's writes to the store, and scheduleSave
RagCommit(r) ==
    /\ chunks' = r.store.chunks
    /\ chunksByFile' = r.store.byFile
    /\ saveTimeout' = (saveTimeout \/ r.save)

\* rebuildIndex is suspended on `await this.vault.cachedRead(file)`
OnRead ==
    /\ rpc = "reading"
    /\ rfiles # <<>>
    /\ ~IsExcluded(Head(rfiles), ragExcludeFolders)

\* history: an event was handled (by `modify` on path, or by delete/rename);
\* raced collects the paths modified or deleted while the current rebuild
\* was suspended on a read, and is given up when an event falls anywhere
\* else in the rebuild
HistEvent(h, kind, path) ==
    [h EXCEPT !.fresh = FALSE,
              !.rclean = FALSE,
              !.handled = IF kind = "modify" /\ h.base = "cleared"
                          THEN @ \cup {path} ELSE @,
              !.plain = @ /\ (kind = "modify" \/ h.base # "cleared"),
              !.toggle = IF @ = "off" /\ kind = "modify" THEN "off"
                         ELSE "none",
              !.raced = IF kind \notin {"modify", "delete"} THEN {}
                        ELSE IF rpc = "reading" /\ ~OnRead THEN {}
                        ELSE IF rpc = "reading" THEN @ \cup {path} ELSE @]

\* one more vault event
CountEvent ==
    /\ events < MaxEvents
    /\ events' = events + 1

\* a document is written, then the 'modify' handler runs
VaultModify(path, lines) ==
    /\ vault[path] # NoFile
    /\ vault' = [vault EXCEPT ![path] = File(lines)]
    /\ RagCommit(HandleFileChange(CurrentStore, path, vault'))
    /\ rhist' = HistEvent(rhist, "modify", path)
    /\ CountEvent
    /\ UNCHANGED <<ragEnabled, ragExcludeFolders, indexFile, rpc, rfiles, racc>>

\* a document is deleted, then the 'delete' handler runs
VaultDelete(path) ==
    /\ vault[path] # NoFile
    /\ vault' = [vault EXCEPT ![path] = NoFile]
    /\ IF Extension(path) = "md"
       THEN RagCommit([store |-> RemoveFileChunks(CurrentStore, path),
                       save |-> TRUE])
       ELSE UNCHANGED <<chunks, chunksByFile, saveTimeout>>
    /\ rhist' = HistEvent(rhist, "delete", path)
    /\ CountEvent
    /\ UNCHANGED <<ragEnabled, ragExcludeFolders, indexFile, rpc, rfiles, racc>>

\* a document is renamed, then the 'rename' handler runs
VaultRename(oldName, path) ==
    /\ vault[oldName] # NoFile
    /\ vault[path] = NoFile
    /\ vault' = [vault EXCEPT ![oldName] = NoFile, ![path] = vault[oldName]]
    /\ IF Extension(path) = "md"
       THEN LET s1 == IF oldName \in DOMAIN chunksByFile
                      THEN ReplaceFileChunks(CurrentStore, oldName, <<>>)
                      ELSE CurrentStore
            IN  RagCommit(HandleFileChange(s1, path, vault'))
       ELSE UNCHANGED <<chunks, chunksByFile, saveTimeout>>
    /\ rhist' = HistEvent(rhist, "rename", path)
    /\ CountEvent
    /\ UNCHANGED <<ragEnabled, ragExcludeFolders, indexFile, rpc, rfiles, racc>>

\* the toggle of the settings tab is switched off: saveSettings calls
\* setEnabled(false), which cancels the save timer. History: toggle is
\* "off" from a switch-off on a freshly rebuilt store for as long as
\* documents are only modified, "on" after the switch-on that follows;
\* wiped holds while indexing is off and the index was cleared (empty store,
\* no snapshot, no rebuild under way) when or after it was switched off
SetEnabledOff ==
    /\ ragEnabled
    /\ ragEnabled' = FALSE
    /\ saveTimeout' = FALSE
    /\ rhist' = [rhist EXCEPT !.toggle = IF rhist.fresh /\ rpc = "idle"
                                         THEN "off" ELSE "none",
                              !.wiped = /\ chunks = <<>>
                                        /\ indexFile = NoIndex
                                        /\ rpc = "idle"]
    /\ UNCHANGED <<vault, ragExcludeFolders, chunks, chunksByFile, indexFile,
                   rpc, rfiles, racc, events>>

\* the toggle is switched on: saveSettings calls setEnabled(true), then the
\* tab calls initialize(); both start rebuildIndex on an empty store only
SetEnabledOn ==
    /\ ~ragEnabled
    /\ rpc = "idle"
    /\ ragEnabled' = TRUE
    /\ IF chunks = <<>>
       THEN /\ rpc' = "reading"
            /\ rfiles' = GetMarkdownFiles(vault)
            /\ racc' = <<>>
       ELSE UNCHANGED <<rpc, rfiles, racc>>
    /\ rhist' = [rhist EXCEPT !.toggle = IF @ = "off" THEN "on" ELSE "none",
                              !.wiped = FALSE,
                              !.rclean = TRUE,
                              !.raced = {}]
    /\ UNCHANGED <<vault, ragExcludeFolders, chunks, chunksByFile, saveTimeout,
                   indexFile, events>>

\* the lists of paths a mention lookup or a find follow-up passes
LookupPaths ==
    {<<p>> : p \in Paths} \cup
    {pq \in Paths \X Paths : pq[1] # pq[2]}

\* getChunksForFiles(filePaths), called for the mentions of a message and
\* for the paths a successful find returned
GetChunksForFiles(filePaths) ==
    /\ RagCommit(EnsureAll([store |-> CurrentStore, save |-> FALSE],
                           filePaths, vault))
    /\ rhist' = HistEvent(rhist, "lookup", Head(filePaths))
    /\ UNCHANGED <<vault, ragEnabled, ragExcludeFolders, indexFile, rpc, rfiles,
                   racc, events>>

GetChunksAny == \E filePaths \in LookupPaths : GetChunksForFiles(filePaths)

\* the save timer fires: flushIndex
SaveTimer ==
    /\ saveTimeout
    /\ saveTimeout' = FALSE
    /\ indexFile' = Snapshot(chunks)
    /\ UNCHANGED <<vault, ragEnabled, ragExcludeFolders, chunks, chunksByFile,
                   rpc, rfiles, racc, events, rhist>>

\* clearIndex (the Clear index button)
ClearIndex ==
    /\ chunks' = <<>>
    /\ chunksByFile' = <<>>
    /\ saveTimeout' = FALSE
    /\ indexFile' = NoIndex
    /\ rhist' = [rhist EXCEPT !.base = "cleared", !.handled = {},
                              !.plain = TRUE, !.fresh = FALSE,
                              !.wiped = (~ragEnabled /\ rpc = "idle"),
                              !.raced = {}]
    /\ UNCHANGED <<vault, ragEnabled, ragExcludeFolders, rpc, rfiles, racc,
                   events>>

\* rebuildIndex up to the first read
RebuildStart ==
    /\ rpc = "idle"
    /\ ragEnabled
    /\ rpc' = "reading"
    /\ rfiles' = GetMarkdownFiles(vault)
    /\ racc' = <<>>
    /\ rhist' = [rhist EXCEPT !.rclean = TRUE, !.raced = {}]
    /\ UNCHANGED <<vault, ragEnabled, ragExcludeFolders, chunks, chunksByFile,
                   saveTimeout, indexFile, events>>

\* rebuildIndex: the next file of the loop is skipped or read and chunked;
\* the read of a file that is gone rejects and ends the rebuild
RebuildStep ==
    /\ rpc = "reading"
    /\ rfiles # <<>>
    /\ LET path == Head(rfiles)
       IN  IF IsExcluded(path, ragExcludeFolders)
           THEN /\ rfiles' = Tail(rfiles)
                /\ UNCHANGED <<rpc, racc>>
           ELSE IF vault[path] = NoFile
           THEN /\ rpc' = "idle"
                /\ rfiles' = <<>>
                /\ racc' = <<>>
           ELSE /\ rfiles' = Tail(rfiles)
                /\ racc' = racc \o ChunkFile(path, vault[path].lines)
                /\ UNCHANGED rpc
    /\ UNCHANGED <<vault, ragEnabled, ragExcludeFolders, chunks, chunksByFile,
                   saveTimeout, indexFile, events, rhist>>

\* rebuildIndex after the loop: setChunks and flushIndex
RebuildEnd ==
    /\ rpc = "reading"
    /\ rfiles = <<>>
    /\ chunks' = racc
    /\ chunksByFile' = SetChunks(racc).byFile
    /\ saveTimeout' = FALSE
    /\ indexFile' = Snapshot(racc)
    /\ rpc' = "idle"
    /\ racc' = <<>>
    /\ rhist' = [rhist EXCEPT !.base = IF rhist.rclean THEN "rebuilt" ELSE "racy",
                              !.fresh = rhist.rclean]
    /\ UNCHANGED <<vault, ragEnabled, ragExcludeFolders, rfiles, events>>

RagModify == \E path \in Paths, lines \in Contents : VaultModify(path, lines)

RagDelete == \E path \in Paths : VaultDelete(path)

RagRename == \E oldName \in Paths, path \in Paths : VaultRename(oldName, path)

\* a step of rebuildIndex in which the read of the next document rejects
ReadFailStep ==
    /\ rpc = "reading"
    /\ rfiles # <<>>
    /\ ~IsExcluded(Head(rfiles), ragExcludeFolders)
    /\ vault[Head(rfiles)] = NoFile

\* INDEX_FILE exists and JSON.parse of its text throws
CorruptIndex == [exists |-> TRUE, chunks |-> <<>>, corrupt |-> TRUE]

\* hydrateChunk
HydrateChunk(entry) == [entry EXCEPT !.start = 0, !.end = 0]

\* stored.map((entry) => this.hydrateChunk(entry))
Hydrate(stored) == [i \in 1..Len(stored) |-> HydrateChunk(stored[i])]

\* the service in its constructor, loadIndex not yet run: no snapshot, a
\* snapshot that cannot be parsed, or the snapshot of the vault
LoadInit ==
    /\ vault \in InitialVaults
    /\ ragEnabled \in BOOLEAN
    /\ ragExcludeFolders \in ExcludeChoices
    /\ chunks = <<>>
    /\ chunksByFile = <<>>
    /\ saveTimeout = FALSE
    /\ indexFile \in {NoIndex, CorruptIndex, Snapshot(RebuildChunks(vault))}
    /\ rpc = "idle"
    /\ rfiles = <<>>
    /\ racc = <<>>
    /\ events = 0
    /\ rhist = NoRagHist
    /\ ready = "loading"

\* loadIndex up to its return or, in the catch branch, up to the first read
\* of rebuildIndex
LoadIndex ==
    /\ ready = "loading"
    /\ IF indexFile = NoIndex
       THEN /\ chunks' = <<>>
            /\ chunksByFile' = <<>>
            /\ ready' = "resolved"
            /\ UNCHANGED <<rpc, rfiles, racc>>
       ELSE IF indexFile = CorruptIndex
       THEN /\ chunks' = <<>>
            /\ chunksByFile' = <<>>
            /\ IF ragEnabled
               THEN /\ rpc' = "reading"
                    /\ rfiles' = GetMarkdownFiles(vault)
                    /\ racc' = <<>>
                    /\ ready' = "rebuilding"
               ELSE /\ ready' = "resolved"
                    /\ UNCHANGED <<rpc, rfiles, racc>>
       ELSE /\ chunks' = Hydrate(indexFile.chunks)
            /\ chunksByFile' = SetChunks(Hydrate(indexFile.chunks)).byFile
            /\ ready' = "resolved"
            /\ UNCHANGED <<rpc, rfiles, racc>>
    /\ UNCHANGED <<vault, ragEnabled, ragExcludeFolders, saveTimeout,
                   indexFile, events, rhist>>

\* the rebuildIndex awaited by the catch branch of loadIndex reads the next
\* file; a rejected read rejects rebuildIndex, loadIndex and `ready`
LoadRebuildStep ==
    /\ ready = "rebuilding"
    /\ RebuildStep
    /\ ready' = IF ReadFailStep THEN "rejected" ELSE ready

\* the rebuildIndex awaited by loadIndex returns, and loadIndex with it
LoadRebuildEnd ==
    /\ ready = "rebuilding"
    /\ RebuildEnd
    /\ ready' = "resolved"

\* initialize(): awaits `ready` and starts rebuildIndex on an empty store;
\* the await of a rejected `ready` throws
Initialize ==
    /\ ready \in {"resolved", "rejected"}
    /\ rpc = "idle"
    /\ IF ready = "resolved" /\ ragEnabled /\ chunks = <<>>
       THEN RebuildStart
       ELSE UNCHANGED varsRag
    /\ UNCHANGED ready

\* the rebuildIndex of initialize() reads the next file
InitializeStep == ready = "resolved" /\ RebuildStep /\ UNCHANGED ready

\* the rebuildIndex of initialize() returns
InitializeEnd == ready = "resolved" /\ RebuildEnd /\ UNCHANGED ready

\* ------------------------------------------------------------------------
\* RAGService.scheduleSave / cancelSave / flushIndex with the clock
\* (src/unnamed/part_010 258-289)
\* ------------------------------------------------------------------------
\* shist: the modifications that reached scheduleSave since the burst
\* began (a burst begins with a modification that arrives DebounceTicks or
\* more after the previous one), the documents they wrote, the index writes
\* since then, the ticks since the last modification and the total number
\* of 'modify' events
NoSaveHist == [mods |-> 0, writes |-> 0, since |-> DebounceTicks,
               paths |-> {}, total |-> 0]

\* no timer was ever set
SaveIdle ==
    /\ timers = <<>>
    /\ shist = NoSaveHist

\* window.clearTimeout(this.saveTimeout): saveTimeout holds the id of the
\* timer created last
ClearTimeout(ts, st) ==
    IF st /\ ts # <<>> THEN SubSeq(ts, 1, Len(ts) - 1) ELSE ts

\* (variant of ScheduleSave: the pending timer is not cleared)
ScheduleSaveNoClear(ts, st) == Append(ts, DebounceTicks)

\* scheduleSave: the timers afterwards
ScheduleSave(ts, st) == Append(ClearTimeout(ts, st), DebounceTicks)

\* a timer whose delay has elapsed
TimerDue == \E i \in 1..Len(timers) : timers[i] = 0

\* a document is written, then the 'modify' handler runs (handleFileChange
\* and, unless it returned early, scheduleSave).  A timer that is due was
\* queued before the event arrived and fires first.
SaveModify(path, lines) ==
    /\ shist.total < MaxMods
    /\ ~TimerDue
    /\ vault[path] # NoFile
    /\ vault' = [vault EXCEPT ![path] = File(lines)]
    /\ LET r == HandleFileChange(CurrentStore, path, vault')
           newBurst == shist.since >= DebounceTicks
       IN  /\ chunks' = r.store.chunks
           /\ chunksByFile' = r.store.byFile
           /\ IF r.save
              THEN /\ timers' = ScheduleSave(timers, saveTimeout)
                   /\ saveTimeout' = TRUE
                   /\ shist' = [mods |-> IF newBurst THEN 1 ELSE shist.mods + 1,
                                writes |-> IF newBurst THEN 0 ELSE shist.writes,
                                since |-> 0,
                                paths |-> IF newBurst THEN {path}
                                          ELSE shist.paths \cup {path},
                                total |-> shist.total + 1]
              ELSE /\ UNCHANGED <<timers, saveTimeout>>
                   /\ shist' = [shist EXCEPT !.total = @ + 1]
    /\ UNCHANGED <<ragEnabled, ragExcludeFolders, indexFile, rpc, rfiles, racc,
                   events, rhist>>

\* one tick of the clock passes; no timer is due
SaveTick ==
    /\ ~TimerDue
    /\ timers # <<>> \/ shist.since < DebounceTicks
    /\ timers' = [i \in 1..Len(timers) |-> timers[i] - 1]
    /\ shist' = [shist EXCEPT
                   !.since = IF @ < DebounceTicks THEN @ + 1 ELSE @]
    /\ UNCHANGED varsRag

\* timer i fires: flushIndex (cancelSave, then the snapshot is written)
SaveFire(i) ==
    /\ i \in 1..Len(timers)
    /\ timers[i] = 0
    /\ LET rest == [j \in 1..(Len(timers) - 1) |->
                      IF j < i THEN timers[j] ELSE timers[j + 1]]
       IN  timers' = IF i = Len(timers) THEN rest
                     ELSE ClearTimeout(rest, saveTimeout)
    /\ saveTimeout' = FALSE
    /\ indexFile' = Snapshot(chunks)
    /\ shist' = [shist EXCEPT !.writes = @ + 1]
    /\ UNCHANGED <<vault, ragEnabled, ragExcludeFolders, chunks, chunksByFile,
                   rpc, rfiles, racc, events, rhist>>

SaveModifyAny == \E path \in Paths, lines \in Contents : SaveModify(path, lines)

SaveFireAny == \E i \in 1..Len(timers) : SaveFire(i)


\* ------------------------------------------------------------------------
\* Single calls of functions of RAGService, LonelyAssistantView and
\* ApplyPatchTool
\* ------------------------------------------------------------------------
\* loadIndex has settled and `ready` is resolved
LoadIdle == ready = "resolved"

\* no call was made
CallIdle ==
    /\ fnArgs = <<>>
    /\ fnResult = <<>>

\* chunkFile, one line at a time: fnArgs holds the lines read so far,
\* fnResult the locals of chunkFile after them
HeadInit ==
    /\ fnArgs = <<>>
    /\ fnResult = ChunkStart0

\* the titles of the heading lines of a document, in document order
Titles == <<"A", "B", "C", "D", "E", "F", "G">>

HeadingLevels == 1..3

\* the heading line "#".repeat(level) + " " + title, after two blanks
\* when indented
HeadingLine(level, title, indented) ==
    [hashes |-> level, indent |-> indented, text |-> title,
     len |-> level + 2 + (IF indented THEN 2 ELSE 0)]

\* number of heading lines among `lines`
CountHeadings(lines) ==
    Cardinality({i \in 1..Len(lines) : IsHeadingLine(lines[i])})

\* the loop of chunkFile reads `line`
FeedLine(line) ==
    /\ Len(fnArgs) < MaxLines
    /\ fnArgs' = Append(fnArgs, line)
    /\ fnResult' = ChunkLine(PathA, fnResult, line)

\* the next line of the document is a heading line
FeedHeading ==
    \E level \in HeadingLevels, indented \in BOOLEAN :
       FeedLine(HeadingLine(level, Titles[CountHeadings(fnArgs) + 1], indented))

\* the next line of the document is a line of text
FeedText == FeedLine(LineP)

\* scoreChunk: a text is a sequence of characters
Chars == {"a", "b"}

\* String.toLowerCase on one character
LowerChar(ch) ==
    CASE ch = "A" -> "a"
      [] ch = "B" -> "b"
      [] ch = "M" -> "m"
      [] ch = "N" -> "n"
      [] OTHER -> ch

\* String.toLowerCase
ToLower(text) == [i \in 1..Len(text) |-> LowerChar(text[i])]

\* the positions of `text` at which `token` starts
Matches(text, token) ==
    {i \in 1..(Len(text) - Len(token) + 1) :
        SubSeq(text, i, i + Len(token) - 1) = token}

\* String.includes
Includes(text, token) == Matches(text, token) # {}

SetMin(S) == CHOOSE x \in S : \A y \in S : x <= y

RECURSIVE Split(_, _)
\* String.split with a non-empty separator
Split(text, token) ==
    IF Matches(text, token) = {} THEN <<text>>
    ELSE LET i == SetMin(Matches(text, token))
         IN  <<SubSeq(text, 1, i - 1)>>
             \o Split(SubSeq(text, i + Len(token), Len(text)), token)

\* (variant of HeadingHits: 10 once for a token found in any heading)
HeadingHitsOnce(headings, token) ==
    IF \E j \in 1..Len(headings) : Includes(ToLower(headings[j]), token)
    THEN 10 ELSE 0

RECURSIVE HeadingHits(_, _)
\* the inner loop of scoreChunk over chunk.headings
HeadingHits(headings, token) ==
    IF headings = <<>> THEN 0
    ELSE (IF Includes(ToLower(Head(headings)), token) THEN 10 ELSE 0)
         + HeadingHits(Tail(headings), token)

RECURSIVE ScoreTokens(_, _, _)
\* the loop of scoreChunk over the tokens
ScoreTokens(contentLower, headings, tokens) ==
    IF tokens = <<>> THEN 0
    ELSE LET occurrences == Len(Split(contentLower, Head(tokens))) - 1
         IN  (IF occurrences > 0 THEN occurrences * 5 ELSE 0)
             + HeadingHits(headings, Head(tokens))
             + ScoreTokens(contentLower, headings, Tail(tokens))

\* scoreChunk(chunk, tokens)
ScoreChunk(chunk, tokens) ==
    IF Len(tokens) = 0 THEN 0
    ELSE ScoreTokens(chunk.contentLower, chunk.headings, tokens)

\* the sequences over S of length at most n
SeqUpTo(S, n) == UNION {[1..k -> S] : k \in 0..n}

\* the query tokens (tokenize yields lowercase runs of 3 characters or more)
QueryTokens == {<<"a", "a", "a">>, <<"a", "b", "a">>}

HeadingTitles == {<<"A", "a", "a">>, <<"a", "a", "a", "b">>, <<"b", "b">>}

\* a chunk with a lowercased text and an outline path, and a token list
ScoreInit ==
    /\ fnArgs \in [contentLower : SeqUpTo(Chars, MaxChars),
                    headings : SeqUpTo(HeadingTitles, 2),
                    tokens : SeqUpTo(QueryTokens, 2)]
    /\ fnResult = [done |-> FALSE, score |-> 0]

\* resolveMentions: the documents Meeting.md, Meeting Notes.md and N/x.md,
\* with a name written as a sequence of characters ("M": Meeting, "N":
\* Notes)
MentionFiles ==
    {[basename |-> <<"M">>, path |-> <<"M", ".md">>],
     [basename |-> <<"M", " ", "N">>, path |-> <<"M", " ", "N", ".md">>],
     [basename |-> <<"x">>, path |-> <<"N", "/", "x", ".md">>]}

\* the mentioned names
MentionNames ==
    {<<"m">>, <<"M">>, <<"n">>, <<"M", " ", "n">>, <<"x">>, <<"z">>}

\* the sequences without repetition
Injective(seq) ==
    \A i, j \in 1..Len(seq) : seq[i] = seq[j] => i = j

\* Array.find: position of the first element that satisfies Test, or 0
FindIndex(seq, Test(_)) ==
    IF \E i \in 1..Len(seq) : Test(seq[i])
    THEN SetMin({i \in 1..Len(seq) : Test(seq[i])})
    ELSE 0

\* files.map(file => ({ file, name, path }))
LowerFiles(files) ==
    [i \in 1..Len(files) |->
       [file |-> files[i], name |-> ToLower(files[i].basename),
        path |-> ToLower(files[i].path)]]

\* (variant of MatchIndex: the substring of the name is tried first)
MatchIndexSubstringFirst(lowerFiles, name) ==
    LET sub == FindIndex(lowerFiles, LAMBDA e : Includes(e.name, name))
        exact == FindIndex(lowerFiles, LAMBDA e : e.name = name)
        inPath == FindIndex(lowerFiles, LAMBDA e : Includes(e.path, name))
    IN  IF sub # 0 THEN sub ELSE IF exact # 0 THEN exact ELSE inPath

\* the three find calls of resolveMentions for one lowercased name: the
\* position of the match, or 0
MatchIndex(lowerFiles, name) ==
    LET exact == FindIndex(lowerFiles, LAMBDA e : e.name = name)
        sub == FindIndex(lowerFiles, LAMBDA e : Includes(e.name, name))
        inPath == FindIndex(lowerFiles, LAMBDA e : Includes(e.path, name))
    IN  IF exact # 0 THEN exact ELSE IF sub # 0 THEN sub ELSE inPath

RECURSIVE Dedupe(_)
\* Array.from(new Set(paths))
Dedupe(seq) ==
    IF seq = <<>> THEN <<>>
    ELSE LET front == Dedupe(SubSeq(seq, 1, Len(seq) - 1))
             last == seq[Len(seq)]
         IN  IF \E i \in 1..Len(front) : front[i] = last
             THEN front ELSE Append(front, last)

RECURSIVE ResolveLoop(_, _, _)
\* the loop of resolveMentions over the names
ResolveLoop(lowerFiles, names, acc) ==
    IF names = <<>> THEN acc
    ELSE LET k == MatchIndex(lowerFiles, ToLower(Head(names)))
         IN  ResolveLoop(lowerFiles, Tail(names),
                IF k # 0
                THEN [acc EXCEPT !.paths = Append(@, lowerFiles[k].file.path)]
                ELSE [acc EXCEPT !.missing = Append(@, Head(names))])

\* resolveMentions(names) with getMarkdownFiles() returning `files`
ResolveMentions(files, names) ==
    LET r == ResolveLoop(LowerFiles(files), names,
                         [paths |-> <<>>, missing |-> <<>>])
    IN  [paths |-> Dedupe(r.paths), missing |-> r.missing]

\* a vault holding some of the documents in some order, and the distinct
\* names extractMentions found
MentionInit ==
    /\ fnArgs \in [files : {f \in SeqUpTo(MentionFiles, 3) : Injective(f)},
                    names : {n \in SeqUpTo(MentionNames, MaxNames) :
                               Injective(n)}]
    /\ fnResult = [done |-> FALSE, paths |-> <<>>, missing |-> <<>>]

\* the call resolveMentions(names)
MentionCall ==
    /\ ~fnResult.done
    /\ LET r == ResolveMentions(fnArgs.files, fnArgs.names)
       IN  fnResult' = [done |-> TRUE, paths |-> r.paths, missing |-> r.missing]
    /\ UNCHANGED fnArgs

\* generateDiff: a diff is the sequence of its lines, each a prefix and a
\* text
DiffLine(prefix, text) == [prefix |-> prefix, text |-> text]

RECURSIVE DiffLoop(_, _, _, _)
\* the while loop of generateDiff, from the 0-based positions i and j
DiffLoop(oldLines, newLines, i, j) ==
    IF ~(i < Len(oldLines) \/ j < Len(newLines)) THEN <<>>
    ELSE IF i < Len(oldLines) /\ j < Len(newLines)
            /\ oldLines[i + 1] = newLines[j + 1]
    THEN <<DiffLine(" ", oldLines[i + 1])>>
         \o DiffLoop(oldLines, newLines, i + 1, j + 1)
    ELSE (IF i < Len(oldLines) THEN <<DiffLine("-", oldLines[i + 1])>> ELSE <<>>)
         \o (IF j < Len(newLines) THEN <<DiffLine("+", newLines[j + 1])>> ELSE <<>>)
         \o DiffLoop(oldLines, newLines,
                     IF i < Len(oldLines) THEN i + 1 ELSE i,
                     IF j < Len(newLines) THEN j + 1 ELSE j)

\* (variant of GenerateDiff: the lines of the new content are not listed)
GenerateDiffOldOnly(filePath, oldContent, newContent) ==
    <<DiffLine("---", filePath), DiffLine("+++", filePath)>>
    \o [i \in 1..Len(oldContent) |-> DiffLine("-", oldContent[i])]

\* generateDiff(filePath, oldContent, newContent)
GenerateDiff(filePath, oldContent, newContent) ==
    <<DiffLine("---", filePath), DiffLine("+++", filePath)>>
    \o DiffLoop(oldContent, newContent, 0, 0)

\* the contents of the file before the patch
DiffContents == InitialContents \cup {<<"b", "a">>, <<"a", "b", "a">>}

\* a file content and one patch operation
DiffInit ==
    /\ fnArgs \in [content : DiffContents, patch : PatchOps]
    /\ fnResult = [done |-> FALSE, newContent |-> EmptyContent, diff |-> <<>>]

\* execute: applyPatches, then generateDiff of the two contents
DiffCall ==
    /\ ~fnResult.done
    /\ LET newContent == ApplyPatches(fnArgs.content, <<fnArgs.patch>>)
       IN  fnResult' = [done |-> TRUE, newContent |-> newContent,
                       diff |-> GenerateDiff("F", fnArgs.content, newContent)]
    /\ UNCHANGED fnArgs

\* the consent prompt of one apply_patch call: fnArgs holds the content of
\* the target file and the patch of the call, fnResult the position of the
\* call (consent requested, prompt open, answered), the preview shown and
\* the diff of the change applied
PreviewInit ==
    /\ fnArgs \in [content : DiffContents, patch : PatchOps]
    /\ fnResult = [pc |-> "request", preview |-> <<>>, diff |-> <<>>,
                   edited |-> FALSE]

\* showConsentDialog: tool.preview(params), then the dialog is opened
ShowConsentDialog ==
    /\ fnResult.pc = "request"
    /\ fnResult' = [fnResult EXCEPT
                      !.pc = "prompt",
                      !.preview = GenerateDiff("F", fnArgs.content,
                                     ApplyPatches(fnArgs.content, <<fnArgs.patch>>))]
    /\ UNCHANGED fnArgs

\* the target file is modified (editor, sync, another tool) while the
\* prompt is open
PromptEdit ==
    /\ fnResult.pc = "prompt"
    /\ \E content \in DiffContents \ {fnArgs.content} :
          fnArgs' = [fnArgs EXCEPT !.content = content]
    /\ fnResult' = [fnResult EXCEPT !.edited = TRUE]

\* the user approves: execute reads the file, applies the patches, writes
\* the file and returns the diff of the two contents
PromptApprove ==
    /\ fnResult.pc = "prompt"
    /\ LET newContent == ApplyPatches(fnArgs.content, <<fnArgs.patch>>)
       IN  /\ fnResult' = [fnResult EXCEPT
                             !.pc = "applied",
                             !.diff = GenerateDiff("F", fnArgs.content, newContent)]
           /\ fnArgs' = [fnArgs EXCEPT !.content = newContent]

\* the user denies: nothing is executed
PromptDeny ==
    /\ fnResult.pc = "prompt"
    /\ fnResult' = [fnResult EXCEPT !.pc = "denied"]
    /\ UNCHANGED fnArgs

\* the call scoreChunk(chunk, tokens)
ScoreCall ==
    /\ ~fnResult.done
    /\ fnResult' = [done |-> TRUE,
                    score |-> ScoreChunk([contentLower |-> fnArgs.contentLower,
                                          headings |-> fnArgs.headings],
                                         fnArgs.tokens)]
    /\ UNCHANGED fnArgs

\* getActiveNoteChunks: a line that is one image embed
LineImage == [hashes |-> 0, indent |-> FALSE, text |-> "!", len |-> 12]

\* the lines of the active document
ActiveLines == {LineP, Heading1, LongLine, LineImage}

\* sanitizeForPrompt removes the image embeds; `!clean.trim()` on the rest
SanitizedBlank(content) ==
    \A i \in 1..Len(content) : content[i].len = 0 \/ content[i].text = "!"

\* posToOffset of column col of line k: every line before it and its '\n'
RECURSIVE PosToOffset(_, _, _)
PosToOffset(lines, k, col) ==
    IF k = 1 THEN col
    ELSE Head(lines).len + 1 + PosToOffset(Tail(lines), k - 1, col)

\* chunks.findIndex(c => cursorOffset >= c.start && cursorOffset <= c.end),
\* counted from 1, 0 when there is none
CursorIndex(cs, cursorOffset) ==
    LET Under(c) == cursorOffset >= c.start /\ cursorOffset <= c.end
    IN  FindIndex(cs, Under)

\* getActiveNoteChunks for the active document `path` with content `lines`;
\* cursorOffset is -1 when the document is not in the active Markdown view
GetActiveNoteChunks(path, lines, cursorOffset) ==
    LET cs == ChunkFile(path, lines)
        cursorIndex == IF cursorOffset >= 0 THEN CursorIndex(cs, cursorOffset)
                       ELSE 0
        ordered == IF cursorIndex > 0
                   THEN <<cs[cursorIndex]>> \o SubSeq(cs, 1, cursorIndex - 1)
                        \o SubSeq(cs, cursorIndex + 1, Len(cs))
                   ELSE cs
        kept == SelectSeq(ordered, LAMBDA c : ~SanitizedBlank(c.content))
    IN  IF Extension(path) # "md" THEN <<>>
        ELSE [i \in 1..Len(kept) |->
                [chunk |-> kept[i], score |-> 1000 - (i - 1),
                 source |-> "active"]]

\* a document open in the Markdown view with the cursor in line k, at the
\* start of the line, after its first character or at its end
ActiveInit ==
    /\ fnArgs \in {a \in [lines : SeqUpTo(ActiveLines, MaxLines) \ {<<>>},
                          k : 1..MaxLines, col : {"start", "inside", "end"}] :
                       a.k <= Len(a.lines)}
    /\ fnResult = [done |-> FALSE, cursorOffset |-> 0, active |-> <<>>]

\* the column of the cursor
CursorColumn(line, col) ==
    CASE col = "start" -> 0
      [] col = "inside" -> 1
      [] col = "end" -> line.len

\* the call getActiveNoteChunks(tokens)
ActiveCall ==
    /\ ~fnResult.done
    /\ LET cursorOffset ==
               PosToOffset(fnArgs.lines, fnArgs.k,
                           CursorColumn(fnArgs.lines[fnArgs.k], fnArgs.col))
       IN  fnResult' = [done |-> TRUE, cursorOffset |-> cursorOffset,
                        active |-> GetActiveNoteChunks(PathA, fnArgs.lines,
                                                       cursorOffset)]
    /\ UNCHANGED fnArgs

\* retrieveChunks: the chunks of the store, with a lowercased text
StoreChunks ==
    {[file |-> PathA, contentLower |-> <<"a", "a", "a">>, headings |-> <<>>],
     [file |-> PathXA, contentLower |-> <<"a", "a", "a">>, headings |-> <<>>],
     [file |-> PathXA, contentLower |-> <<"a", "a", "a", "a", "a", "a">>,
      headings |-> <<>>],
     [file |-> PathXA, contentLower |-> <<"b", "b", "b">>, headings |-> <<>>]}

\* the active documents: none, one chunk, two chunks, an image only
ActiveDocs == {<<>>, <<LineP>>, DocText, <<LineImage>>}

\* the largest value of the setting ragMaxContext in the calls
MaxContext == 2

\* the largest number of web_fetch calls in a run
MaxFetches == 2

\* Array.sort((a, b) => b.score - a.score) puts e into a sorted list: the
\* sort is stable, e goes after the entries that score as much
InsertByScore(sorted, e) ==
    LET n == Cardinality({i \in 1..Len(sorted) : sorted[i].score >= e.score})
    IN  SubSeq(sorted, 1, n) \o <<e>> \o SubSeq(sorted, n + 1, Len(sorted))

RECURSIVE SortByScore(_)
SortByScore(seq) ==
    IF seq = <<>> THEN <<>>
    ELSE InsertByScore(SortByScore(SubSeq(seq, 1, Len(seq) - 1)), seq[Len(seq)])

\* Math.max(0, ragMaxContext - excludeFiles.length)
RetrieveMax(ragMaxContext, excludeFiles) ==
    Max(0, ragMaxContext - Len(excludeFiles))

\* retrieveChunks(tokens, excludeFiles) over the chunks `store`
RetrieveChunks(store, tokens, excludeFiles, ragMaxContext) ==
    LET max == RetrieveMax(ragMaxContext, excludeFiles)
        eligible == SelectSeq(store,
                              LAMBDA c : /\ c.file \notin Range(excludeFiles)
                                         /\ ScoreChunk(c, tokens) > 0
                                         /\ c.contentLower # <<>>)
        scored == [i \in 1..Len(eligible) |->
                     [chunk |-> eligible[i],
                      score |-> ScoreChunk(eligible[i], tokens),
                      source |-> "retrieved"]]
    IN  IF max = 0 THEN <<>>
        ELSE SubSeq(SortByScore(scored), 1, Min(max, Len(scored)))

\* getContextForMessage returned null
NoContext == [null |-> TRUE, active |-> <<>>, retrieved |-> <<>>]

\* getContextForMessage(query, options): a.lines is the active document
\* (no line: no active document), not shown in the active Markdown view
GetContextForMessage(a) ==
    LET active == IF a.lines = <<>> THEN <<>>
                  ELSE GetActiveNoteChunks(PathA, a.lines, -1)
        files == [i \in 1..Len(active) |-> active[i].chunk.file]
        retrieved == IF a.allowRetrieved
                     THEN RetrieveChunks(a.store, a.tokens, files,
                                         a.ragMaxContext)
                     ELSE <<>>
    IN  IF ~a.ragEnabled THEN NoContext
        ELSE IF active = <<>> /\ retrieved = <<>> THEN NoContext
        ELSE [null |-> FALSE, active |-> active, retrieved |-> retrieved]

\* one call of getContextForMessage
ContextInit ==
    /\ fnArgs \in [lines : ActiveDocs,
                    store : SeqUpTo(StoreChunks, MaxNames),
                    tokens : SeqUpTo(QueryTokens, 1),
                    ragMaxContext : 1..MaxContext,
                    allowRetrieved : BOOLEAN,
                    ragEnabled : BOOLEAN]
    /\ fnResult = [done |-> FALSE, context |-> NoContext]

\* the call getContextForMessage(query, options)
ContextCall ==
    /\ ~fnResult.done
    /\ fnResult' = [done |-> TRUE, context |-> GetContextForMessage(fnArgs)]
    /\ UNCHANGED fnArgs

\* ------------------------------------------------------------------------
\* WebFetchTool (src/src/tools/WebFetchTool.ts)
\* ------------------------------------------------------------------------
\* a host name is the sequence of its characters
HostApex == <<"b", ".", "c">>

HostSub == <<"a", ".", "b", ".", "c">>

HostSuffix == <<"a", "b", ".", "c">>

HostOther == <<"d", ".", "c">>

Hosts == {HostApex, HostSub, HostSuffix, HostOther}

\* the allowlist entries: b.c and *.b.c
AllowEntries == {HostApex, <<"*", ".">> \o HostApex}

\* the url parameter: the scheme as it is written, and the host (no host:
\* `new URL` throws)
FetchUrls == [scheme : {"https", "http", "HTTPS"}, host : Hosts \cup {<<>>}]

\* URL.protocol: the scheme in lower case
Protocol(url) == IF url.scheme = "HTTPS" THEN "https" ELSE url.scheme

\* String.endsWith
EndsWith(str, suffix) ==
    /\ Len(suffix) <= Len(str)
    /\ SubSeq(str, Len(str) - Len(suffix) + 1, Len(str)) = suffix

\* isValidUrl
IsValidUrl(url) == url.host # <<>>

\* one iteration of the loop of isAllowedDomain
AllowedBy(hostname, allowed) ==
    IF StartsWith(allowed, <<"*", ".">>)
    THEN EndsWith(hostname, SubSeq(allowed, 3, Len(allowed)))
    ELSE hostname = allowed

\* isAllowedDomain
IsAllowedDomain(url) ==
    \/ fetchSettings.allowAllDomains
    \/ /\ IsValidUrl(url)
       /\ \E allowed \in fetchSettings.allowedDomains : AllowedBy(url.host, allowed)

NoFetch == [called |-> FALSE, url |-> [scheme |-> "", host |-> <<>>],
            success |-> FALSE, cached |-> FALSE, requested |-> FALSE,
            count |-> 0]

\* no web_fetch tool in use
FetchIdle ==
    /\ fetchSettings = [allowedDomains |-> {}, allowAllDomains |-> FALSE,
                        httpsOnly |-> TRUE, cacheEnabled |-> TRUE]
    /\ fetchCache = {}
    /\ fetchLast = NoFetch

\* new WebFetchTool(...) under any settings
FetchInit ==
    /\ fetchSettings \in [allowedDomains : SUBSET AllowEntries,
                           allowAllDomains : BOOLEAN,
                           httpsOnly : BOOLEAN,
                           cacheEnabled : BOOLEAN]
    /\ fetchCache = {}
    /\ fetchLast = NoFetch

\* execute({url}): status is what requestUrl answers when it is asked
FetchExecute(url, status) ==
    /\ fetchLast.count < MaxFetches
    /\ LET done(success, cached, requested) ==
               [called |-> TRUE, url |-> url, success |-> success,
                cached |-> cached, requested |-> requested,
                count |-> fetchLast.count + 1]
       IN  IF ~IsValidUrl(url) \/ ~IsAllowedDomain(url)
              \/ (fetchSettings.httpsOnly /\ url.scheme # "https")
           THEN /\ fetchLast' = done(FALSE, FALSE, FALSE)
                /\ UNCHANGED fetchCache
           ELSE IF fetchSettings.cacheEnabled /\ url \in fetchCache
           THEN /\ fetchLast' = done(TRUE, TRUE, FALSE)
                /\ UNCHANGED fetchCache
           ELSE IF status # 200
           THEN /\ fetchLast' = done(FALSE, FALSE, TRUE)
                /\ UNCHANGED fetchCache
           ELSE /\ fetchLast' = done(TRUE, FALSE, TRUE)
                /\ fetchCache' = IF fetchSettings.cacheEnabled
                                 THEN fetchCache \cup {url} ELSE fetchCache
    /\ UNCHANGED fetchSettings

FetchAny == \E url \in FetchUrls, status \in {200, 404} : FetchExecute(url, status)

\* an entry grows older than cacheTTL: getFromCache deletes it when it is
\* looked up
FetchExpire ==
    /\ \E url \in fetchCache : fetchCache' = fetchCache \ {url}
    /\ UNCHANGED <<fetchSettings, fetchLast>>

\* ------------------------------------------------------------------------
\* ToolRegistry.registerProvider / unregisterProvider
\* (src/src/tools/AuditLogger.ts 277-306)
\* ------------------------------------------------------------------------
ProviderIds == {"builtin", "mcp"}

RegToolNames == {"grep", "find"}

\* the providers offered to registerProvider: an id and a list of tools
ProviderChoices ==
    [id : ProviderIds, tools : SeqUpTo(RegToolNames, MaxNames)]

NoRegCall == [op |-> "none", id |-> "", rejected |-> FALSE,
              providers |-> <<>>, tools |-> <<>>, offered |-> <<>>]

\* a new ToolRegistry
RegIdle ==
    /\ providers = <<>>
    /\ tools = <<>>
    /\ regLast = NoRegCall

\* the loop of registerProvider that overwrites a registered name
RegisterToolsOverwrite(map, provider) ==
    [tools |-> [name \in DOMAIN map \cup Range(provider.tools) |->
                   IF name \in Range(provider.tools) THEN provider.id
                   ELSE map[name]],
     rejected |-> FALSE]

\* the loop of registerProvider over provider.tools from index i: the map
\* after it and whether it threw
RECURSIVE RegisterToolsFrom(_, _, _)
RegisterToolsFrom(map, provider, i) ==
    IF i > Len(provider.tools)
    THEN [tools |-> map, rejected |-> FALSE]
    ELSE IF provider.tools[i] \in DOMAIN map
    THEN [tools |-> map, rejected |-> TRUE]
    ELSE RegisterToolsFrom(MapSet(map, provider.tools[i], provider.id),
                           provider, i + 1)

RegisterTools(map, provider) == RegisterToolsFrom(map, provider, 1)

\* registerProvider(provider)
RegisterProvider(provider) ==
    /\ IF provider.id \in DOMAIN providers
       THEN /\ regLast' = [op |-> "register", id |-> provider.id,
                           rejected |-> TRUE, providers |-> providers,
                           tools |-> tools, offered |-> provider.tools]
            /\ UNCHANGED <<providers, tools>>
       ELSE LET r == RegisterTools(tools, provider)
            IN  /\ providers' = MapSet(providers, provider.id, provider.tools)
                /\ tools' = r.tools
                /\ regLast' = [op |-> "register", id |-> provider.id,
                               rejected |-> r.rejected,
                               providers |-> providers, tools |-> tools,
                               offered |-> provider.tools]

\* unregisterProvider(providerId)
UnregisterProvider(providerId) ==
    /\ IF providerId \notin DOMAIN providers
       THEN UNCHANGED <<providers, tools>>
       ELSE /\ tools' = [name \in DOMAIN tools \ Range(providers[providerId])
                            |-> tools[name]]
            /\ providers' = MapDelete(providers, providerId)
    /\ regLast' = [op |-> "unregister", id |-> providerId, rejected |-> FALSE,
                   providers |-> providers, tools |-> tools, offered |-> <<>>]

RegisterAny == \E provider \in ProviderChoices : RegisterProvider(provider)

UnregisterAny == \E providerId \in ProviderIds : UnregisterProvider(providerId)

\* ------------------------------------------------------------------------
\* AuditLogger: the log file over the life of the plugin
\* (src/src/tools/AuditLogger.ts 15-42, 79-94, 135-177).  The entries are
\* recent and the file is small: pruneOldLogs and rotateLogsIfNeeded leave
\* them alone.
\* ------------------------------------------------------------------------
\* no file at '.lonely-assistant/logs/tools.log'
NoLog == [exists |-> FALSE, entries |-> <<>>]

\* an entry written by an earlier run of the plugin
OldEntry == [tool |-> "grep", executionId |-> 0,
             parameters |-> ValidParams("grep"), success |-> TRUE]

\* logExecution calls of the model
MaxAuditCalls == 3

\* `if (this.logs.length >= 100)` of logExecution, scaled down
PersistThreshold == 2

\* no AuditLogger at work
LogIdle ==
    /\ logFile = NoLog
    /\ logPhase = "constructed"
    /\ logSeq = 0

\* a new AuditLogger in front of the log file of an earlier run, with audit
\* logging saved on or off
LoggerInit ==
    /\ enabledTools = {}
    /\ blockExternalRequests = FALSE
    /\ consentMode = <<>>
    /\ developerMode = FALSE
    /\ sessionConsent = {}
    /\ epc = "idle"
    /\ ecall = NoCall
    /\ eresult = NoResult
    /\ eparams = <<>>
    /\ auditLogs = <<>>
    /\ enableAuditLog \in BOOLEAN
    /\ logParameterValues = TRUE
    /\ anonymizeLog = FALSE
    /\ logFile = [exists |-> TRUE, entries |-> <<OldEntry>>]
    /\ logPhase = "constructed"
    /\ logSeq = 0

\* persistLogs: the file is created or overwritten with this.logs
PersistLogs(logs) == [exists |-> TRUE, entries |-> logs]

\* initialize: nothing when audit logging is off; else loadLogs, which
\* leaves this.logs alone without a file, takes the entries of the file, or
\* empties this.logs when the read throws
LoggerInitialize ==
    /\ logPhase = "constructed"
    /\ logPhase' = "running"
    /\ IF enableAuditLog /\ logFile.exists
       THEN \E readOk \in BOOLEAN :
              auditLogs' = IF readOk THEN logFile.entries ELSE <<>>
       ELSE UNCHANGED auditLogs
    /\ UNCHANGED <<varsExecNoLogs, logFile, logSeq>>

\* updateSettings after the audit log toggle of the settings tab
LoggerUpdateSettings ==
    /\ logPhase = "running"
    /\ enableAuditLog' = ~enableAuditLog
    /\ UNCHANGED <<enabledTools, blockExternalRequests, consentMode,
                   developerMode, sessionConsent, epc, ecall, eresult,
                   eparams, auditLogs, logParameterValues, anonymizeLog,
                   varsLog>>

\* logExecution(log)
LoggerLogExecution ==
    /\ logPhase = "running"
    /\ logSeq < MaxAuditCalls
    /\ logSeq' = logSeq + 1
    /\ auditLogs' = LogExecution(auditLogs, "grep", logSeq + 1,
                                 ValidParams("grep"), TRUE)
    /\ logFile' = IF enableAuditLog /\ Len(auditLogs') >= PersistThreshold
                  THEN PersistLogs(auditLogs') ELSE logFile
    /\ UNCHANGED <<varsExecNoLogs, logPhase>>

\* clearLogs (the Clear logs button)
LoggerClearLogs ==
    /\ logPhase = "running"
    /\ auditLogs' = <<>>
    /\ logFile' = NoLog
    /\ UNCHANGED <<varsExecNoLogs, logPhase, logSeq>>

\* shutdown (onunload)
LoggerShutdown ==
    /\ logPhase = "running"
    /\ logPhase' = "down"
    /\ logFile' = IF Len(auditLogs) > 0 THEN PersistLogs(auditLogs) ELSE logFile
    /\ UNCHANGED <<varsExec, logSeq>>

\* the plugin is loaded again: a new AuditLogger
LoggerRestart ==
    /\ logPhase = "down"
    /\ logPhase' = "constructed"
    /\ auditLogs' = <<>>
    /\ UNCHANGED <<varsExecNoLogs, logFile, logSeq>>

\* ------------------------------------------------------------------------
\* Specifications
\* ------------------------------------------------------------------------
NextRate ==
    \/ Tick /\ UNCHANGED <<varsExec, varsPatch, varsLoop, varsRag, varsSave, varsCall, varsLoad, varsReg, varsFetch, varsLog>>
    \/ RateCall /\ UNCHANGED <<varsExec, varsPatch, varsLoop, varsRag, varsSave, varsCall, varsLoad, varsReg, varsFetch, varsLog>>

Init == RateInit /\ ExecIdle /\ PatchIdle /\ LoopIdle /\ RagIdle /\ SaveIdle /\ CallIdle /\ RegIdle /\ LoadIdle /\ FetchIdle /\ LogIdle

SpecRate == Init /\ [][NextRate]_vars

InitExec == RateInitExec /\ ExecInit /\ PatchIdle /\ LoopIdle /\ RagIdle /\ SaveIdle /\ CallIdle /\ RegIdle /\ LoadIdle /\ FetchIdle /\ LogIdle

NextExec ==
    \/ ExecStart /\ UNCHANGED <<varsPatch, varsLoop, varsRag, varsSave, varsCall, varsLoad, varsReg, varsFetch, varsLog>>
    \/ ExecDialog /\ UNCHANGED <<varsPatch, varsLoop, varsRag, varsSave, varsCall, varsLoad, varsReg, varsFetch, varsLog>>
    \/ ExecFinish /\ UNCHANGED <<varsPatch, varsLoop, varsRag, varsSave, varsCall, varsLoad, varsReg, varsFetch, varsLog>>

SpecExec == InitExec /\ [][NextExec]_vars

NextConsent ==
    \/ ExecStart /\ UNCHANGED <<varsPatch, varsLoop, varsRag, varsSave, varsCall, varsLoad, varsReg, varsFetch, varsLog>>
    \/ ExecDialog /\ UNCHANGED <<varsPatch, varsLoop, varsRag, varsSave, varsCall, varsLoad, varsReg, varsFetch, varsLog>>
    \/ ExecFinish /\ UNCHANGED <<varsPatch, varsLoop, varsRag, varsSave, varsCall, varsLoad, varsReg, varsFetch, varsLog>>
    \/ ExecSetMode /\ UNCHANGED <<varsPatch, varsLoop, varsRag, varsSave, varsCall, varsLoad, varsReg, varsFetch, varsLog>>
    \/ ToggleDeveloperMode /\ UNCHANGED <<varsPatch, varsLoop, varsRag, varsSave, varsCall, varsLoad, varsReg, varsFetch, varsLog>>
    \/ ClearSessionConsent /\ UNCHANGED <<varsPatch, varsLoop, varsRag, varsSave, varsCall, varsLoad, varsReg, varsFetch, varsLog>>

InitConsent ==
    RateInitExec /\ ConsentInit /\ PatchIdle /\ LoopIdle /\ RagIdle /\ SaveIdle /\ CallIdle /\ RegIdle /\ LoadIdle /\ FetchIdle /\ LogIdle

SpecConsent == InitConsent /\ [][NextConsent]_vars

InitAudit == RateInitExec /\ AuditInit /\ LoopIdle /\ RagIdle /\ SaveIdle /\ CallIdle /\ RegIdle /\ LoadIdle /\ FetchIdle /\ LogIdle

NextAudit ==
    \/ AuditCall /\ UNCHANGED <<varsLoop, varsRag, varsSave, varsCall, varsLoad, varsReg, varsFetch, varsLog>>
    \/ ExecDialog /\ UNCHANGED <<varsPatch, varsLoop, varsRag, varsSave, varsCall, varsLoad, varsReg, varsFetch, varsLog>>
    \/ AuditFinish /\ UNCHANGED <<varsLoop, varsRag, varsSave, varsCall, varsLoad, varsReg, varsFetch, varsLog>>
    \/ AuditPatchBegin /\ UNCHANGED <<varsLoop, varsRag, varsSave, varsCall, varsLoad, varsReg, varsFetch, varsLog>>
    \/ AuditPatchCommit /\ UNCHANGED <<varsLoop, varsRag, varsSave, varsCall, varsLoad, varsReg, varsFetch, varsLog>>
    \/ AuditUndo /\ UNCHANGED <<varsLoop, varsRag, varsSave, varsCall, varsLoad, varsReg, varsFetch, varsLog>>

SpecAudit == InitAudit /\ [][NextAudit]_vars

InitPatch == RateIdle /\ ExecIdle /\ PatchInit /\ LoopIdle /\ RagIdle /\ SaveIdle /\ CallIdle /\ RegIdle /\ LoadIdle /\ FetchIdle /\ LogIdle

NextPatch ==
    \/ PatchStart /\ UNCHANGED <<varsRate, varsExec, varsLoop, varsRag, varsSave, varsCall, varsLoad, varsReg, varsFetch, varsLog>>
    \/ PatchEnd /\ UNCHANGED <<varsRate, varsExec, varsLoop, varsRag, varsSave, varsCall, varsLoad, varsReg, varsFetch, varsLog>>
    \/ PatchUndoCall /\ UNCHANGED <<varsRate, varsExecNoLogs, varsLoop, varsRag, varsSave, varsCall, varsLoad, varsReg, varsFetch, varsLog>>

SpecPatch == InitPatch /\ [][NextPatch]_vars

InitLoop == RateInitExec /\ ExecInitLoop /\ PatchIdle /\ LoopInit /\ RagIdle /\ SaveIdle /\ CallIdle /\ RegIdle /\ LoadIdle /\ FetchIdle /\ LogIdle

NextLoop ==
    \/ LoopSend /\ UNCHANGED <<varsPatch, varsRag, varsSave, varsCall, varsLoad, varsReg, varsFetch, varsLog>>
    \/ LoopSendFail /\ UNCHANGED <<varsPatch, varsRag, varsSave, varsCall, varsLoad, varsReg, varsFetch, varsLog>>
    \/ LoopChunk /\ UNCHANGED <<varsPatch, varsRag, varsSave, varsCall, varsLoad, varsReg, varsFetch, varsLog>>
    \/ LoopStreamEnd /\ UNCHANGED <<varsPatch, varsRag, varsSave, varsCall, varsLoad, varsReg, varsFetch, varsLog>>
    \/ LoopStreamThrow /\ UNCHANGED <<varsPatch, varsRag, varsSave, varsCall, varsLoad, varsReg, varsFetch, varsLog>>
    \/ LoopOnce /\ UNCHANGED <<varsPatch, varsRag, varsSave, varsCall, varsLoad, varsReg, varsFetch, varsLog>>
    \/ LoopDialog /\ UNCHANGED <<varsPatch, varsRag, varsSave, varsCall, varsLoad, varsReg, varsFetch, varsLog>>
    \/ LoopToolFinish /\ UNCHANGED <<varsPatch, varsRag, varsSave, varsCall, varsLoad, varsReg, varsFetch, varsLog>>
    \/ LoopToolReturn /\ UNCHANGED <<varsPatch, varsRag, varsSave, varsCall, varsLoad, varsReg, varsFetch, varsLog>>
    \/ LoopGrepReturn /\ UNCHANGED <<varsPatch, varsRag, varsSave, varsCall, varsLoad, varsReg, varsFetch, varsLog>>
    \/ LoopCancel /\ UNCHANGED <<varsPatch, varsRag, varsSave, varsCall, varsLoad, varsReg, varsFetch, varsLog>>
    \/ LoopTimeout /\ UNCHANGED <<varsPatch, varsRag, varsSave, varsCall, varsLoad, varsReg, varsFetch, varsLog>>

SpecLoop == InitLoop /\ [][NextLoop]_vars

InitRag == RateIdle /\ ExecIdle /\ PatchIdle /\ LoopIdle /\ RagInit /\ SaveIdle /\ CallIdle /\ RegIdle /\ LoadIdle /\ FetchIdle /\ LogIdle

NextRag ==
    \/ RagModify /\ UNCHANGED <<varsRate, varsExec, varsPatch, varsLoop, varsSave, varsCall, varsLoad, varsReg, varsFetch, varsLog>>
    \/ RagDelete /\ UNCHANGED <<varsRate, varsExec, varsPatch, varsLoop, varsSave, varsCall, varsLoad, varsReg, varsFetch, varsLog>>
    \/ RagRename /\ UNCHANGED <<varsRate, varsExec, varsPatch, varsLoop, varsSave, varsCall, varsLoad, varsReg, varsFetch, varsLog>>
    \/ SaveTimer /\ UNCHANGED <<varsRate, varsExec, varsPatch, varsLoop, varsSave, varsCall, varsLoad, varsReg, varsFetch, varsLog>>
    \/ ClearIndex /\ UNCHANGED <<varsRate, varsExec, varsPatch, varsLoop, varsSave, varsCall, varsLoad, varsReg, varsFetch, varsLog>>
    \/ RebuildStart /\ UNCHANGED <<varsRate, varsExec, varsPatch, varsLoop, varsSave, varsCall, varsLoad, varsReg, varsFetch, varsLog>>
    \/ RebuildStep /\ UNCHANGED <<varsRate, varsExec, varsPatch, varsLoop, varsSave, varsCall, varsLoad, varsReg, varsFetch, varsLog>>
    \/ RebuildEnd /\ UNCHANGED <<varsRate, varsExec, varsPatch, varsLoop, varsSave, varsCall, varsLoad, varsReg, varsFetch, varsLog>>

SpecRag == InitRag /\ [][NextRag]_vars

InitSave == RateIdle /\ ExecIdle /\ PatchIdle /\ LoopIdle /\ RagInit /\ SaveIdle /\ CallIdle /\ RegIdle /\ LoadIdle /\ FetchIdle /\ LogIdle

NextSave ==
    \/ SaveModifyAny /\ UNCHANGED <<varsRate, varsExec, varsPatch, varsLoop, varsCall, varsLoad, varsReg, varsFetch, varsLog>>
    \/ SaveTick /\ UNCHANGED <<varsRate, varsExec, varsPatch, varsLoop, varsCall, varsLoad, varsReg, varsFetch, varsLog>>
    \/ SaveFireAny /\ UNCHANGED <<varsRate, varsExec, varsPatch, varsLoop, varsCall, varsLoad, varsReg, varsFetch, varsLog>>

SpecSave == InitSave /\ [][NextSave]_vars

InitLoad ==
    RateIdle /\ ExecIdle /\ PatchIdle /\ LoopIdle /\ LoadInit /\ SaveIdle /\ CallIdle /\ RegIdle /\ FetchIdle /\ LogIdle

NextLoad ==
    \/ LoadIndex /\ UNCHANGED <<varsRate, varsExec, varsPatch, varsLoop, varsSave, varsCall, varsReg, varsFetch, varsLog>>
    \/ LoadRebuildStep /\ UNCHANGED <<varsRate, varsExec, varsPatch, varsLoop, varsSave, varsCall, varsReg, varsFetch, varsLog>>
    \/ LoadRebuildEnd /\ UNCHANGED <<varsRate, varsExec, varsPatch, varsLoop, varsSave, varsCall, varsReg, varsFetch, varsLog>>
    \/ Initialize /\ UNCHANGED <<varsRate, varsExec, varsPatch, varsLoop, varsSave, varsCall, varsReg, varsFetch, varsLog>>
    \/ InitializeStep /\ UNCHANGED <<varsRate, varsExec, varsPatch, varsLoop, varsSave, varsCall, varsReg, varsFetch, varsLog>>
    \/ InitializeEnd /\ UNCHANGED <<varsRate, varsExec, varsPatch, varsLoop, varsSave, varsCall, varsReg, varsFetch, varsLog>>
    \/ RagDelete /\ UNCHANGED <<varsRate, varsExec, varsPatch, varsLoop, varsSave, varsCall, varsLoad, varsReg, varsFetch, varsLog>>

SpecLoad == InitLoad /\ [][NextLoad]_vars

InitRegistry ==
    RateIdle /\ ExecIdle /\ PatchIdle /\ LoopIdle /\ RagIdle /\ SaveIdle /\ CallIdle /\ LoadIdle /\ RegIdle /\ FetchIdle /\ LogIdle

NextRegistry ==
    \/ RegisterAny /\ UNCHANGED <<varsRate, varsExec, varsPatch, varsLoop, varsRag, varsSave, varsCall, varsLoad, varsFetch, varsLog>>
    \/ UnregisterAny /\ UNCHANGED <<varsRate, varsExec, varsPatch, varsLoop, varsRag, varsSave, varsCall, varsLoad, varsFetch, varsLog>>

SpecRegistry == InitRegistry /\ [][NextRegistry]_vars

InitActive ==
    RateIdle /\ ExecIdle /\ PatchIdle /\ LoopIdle /\ RagIdle /\ SaveIdle /\ ActiveInit /\ LoadIdle /\ RegIdle /\ FetchIdle /\ LogIdle

NextActive ==
    ActiveCall /\ UNCHANGED <<varsRate, varsExec, varsPatch, varsLoop, varsRag, varsSave, varsLoad, varsReg, varsFetch, varsLog>>

SpecActive == InitActive /\ [][NextActive]_vars

InitContext ==
    RateIdle /\ ExecIdle /\ PatchIdle /\ LoopIdle /\ RagIdle /\ SaveIdle /\ ContextInit /\ LoadIdle /\ RegIdle /\ FetchIdle /\ LogIdle

NextContext ==
    ContextCall /\ UNCHANGED <<varsRate, varsExec, varsPatch, varsLoop, varsRag, varsSave, varsLoad, varsReg, varsFetch, varsLog>>

SpecContext == InitContext /\ [][NextContext]_vars

InitFetch ==
    RateIdle /\ ExecIdle /\ PatchIdle /\ LoopIdle /\ RagIdle /\ SaveIdle /\ CallIdle /\ RegIdle /\ LoadIdle /\ FetchInit /\ LogIdle

NextFetch ==
    \/ FetchAny /\ UNCHANGED <<varsRate, varsExec, varsPatch, varsLoop, varsRag, varsSave, varsCall, varsLoad, varsReg, varsLog>>
    \/ FetchExpire /\ UNCHANGED <<varsRate, varsExec, varsPatch, varsLoop, varsRag, varsSave, varsCall, varsLoad, varsReg, varsLog>>

SpecFetch == InitFetch /\ [][NextFetch]_vars

NextToggle ==
    \/ RagModify /\ UNCHANGED <<varsRate, varsExec, varsPatch, varsLoop, varsSave, varsCall, varsLoad, varsReg, varsFetch, varsLog>>
    \/ RagDelete /\ UNCHANGED <<varsRate, varsExec, varsPatch, varsLoop, varsSave, varsCall, varsLoad, varsReg, varsFetch, varsLog>>
    \/ RagRename /\ UNCHANGED <<varsRate, varsExec, varsPatch, varsLoop, varsSave, varsCall, varsLoad, varsReg, varsFetch, varsLog>>
    \/ SaveTimer /\ UNCHANGED <<varsRate, varsExec, varsPatch, varsLoop, varsSave, varsCall, varsLoad, varsReg, varsFetch, varsLog>>
    \/ ClearIndex /\ UNCHANGED <<varsRate, varsExec, varsPatch, varsLoop, varsSave, varsCall, varsLoad, varsReg, varsFetch, varsLog>>
    \/ SetEnabledOff /\ UNCHANGED <<varsRate, varsExec, varsPatch, varsLoop, varsSave, varsCall, varsLoad, varsReg, varsFetch, varsLog>>
    \/ SetEnabledOn /\ UNCHANGED <<varsRate, varsExec, varsPatch, varsLoop, varsSave, varsCall, varsLoad, varsReg, varsFetch, varsLog>>
    \/ RebuildStep /\ UNCHANGED <<varsRate, varsExec, varsPatch, varsLoop, varsSave, varsCall, varsLoad, varsReg, varsFetch, varsLog>>
    \/ RebuildEnd /\ UNCHANGED <<varsRate, varsExec, varsPatch, varsLoop, varsSave, varsCall, varsLoad, varsReg, varsFetch, varsLog>>

SpecToggle == InitRag /\ [][NextToggle]_vars

NextLookup ==
    \/ RagModify /\ UNCHANGED <<varsRate, varsExec, varsPatch, varsLoop, varsSave, varsCall, varsLoad, varsReg, varsFetch, varsLog>>
    \/ RagDelete /\ UNCHANGED <<varsRate, varsExec, varsPatch, varsLoop, varsSave, varsCall, varsLoad, varsReg, varsFetch, varsLog>>
    \/ RagRename /\ UNCHANGED <<varsRate, varsExec, varsPatch, varsLoop, varsSave, varsCall, varsLoad, varsReg, varsFetch, varsLog>>
    \/ SaveTimer /\ UNCHANGED <<varsRate, varsExec, varsPatch, varsLoop, varsSave, varsCall, varsLoad, varsReg, varsFetch, varsLog>>
    \/ GetChunksAny /\ UNCHANGED <<varsRate, varsExec, varsPatch, varsLoop, varsSave, varsCall, varsLoad, varsReg, varsFetch, varsLog>>
    \/ RebuildStart /\ UNCHANGED <<varsRate, varsExec, varsPatch, varsLoop, varsSave, varsCall, varsLoad, varsReg, varsFetch, varsLog>>
    \/ RebuildStep /\ UNCHANGED <<varsRate, varsExec, varsPatch, varsLoop, varsSave, varsCall, varsLoad, varsReg, varsFetch, varsLog>>
    \/ RebuildEnd /\ UNCHANGED <<varsRate, varsExec, varsPatch, varsLoop, varsSave, varsCall, varsLoad, varsReg, varsFetch, varsLog>>

SpecLookup == InitRag /\ [][NextLookup]_vars

InitPreview ==
    RateIdle /\ ExecIdle /\ PatchIdle /\ LoopIdle /\ RagIdle /\ SaveIdle /\ PreviewInit /\ LoadIdle /\ RegIdle /\ FetchIdle /\ LogIdle

NextPreview ==
    \/ ShowConsentDialog /\ UNCHANGED <<varsRate, varsExec, varsPatch, varsLoop, varsRag, varsSave, varsLoad, varsReg, varsFetch, varsLog>>
    \/ PromptEdit /\ UNCHANGED <<varsRate, varsExec, varsPatch, varsLoop, varsRag, varsSave, varsLoad, varsReg, varsFetch, varsLog>>
    \/ PromptApprove /\ UNCHANGED <<varsRate, varsExec, varsPatch, varsLoop, varsRag, varsSave, varsLoad, varsReg, varsFetch, varsLog>>
    \/ PromptDeny /\ UNCHANGED <<varsRate, varsExec, varsPatch, varsLoop, varsRag, varsSave, varsLoad, varsReg, varsFetch, varsLog>>

SpecPreview == InitPreview /\ [][NextPreview]_vars

InitLogger ==
    RateIdle /\ LoggerInit /\ PatchIdle /\ LoopIdle /\ RagIdle /\ SaveIdle /\ CallIdle /\ LoadIdle /\ RegIdle /\ FetchIdle

NextLogger ==
    \/ LoggerInitialize /\ UNCHANGED <<varsRate, varsPatch, varsLoop, varsRag, varsSave, varsCall, varsLoad, varsReg, varsFetch>>
    \/ LoggerUpdateSettings /\ UNCHANGED <<varsRate, varsPatch, varsLoop, varsRag, varsSave, varsCall, varsLoad, varsReg, varsFetch>>
    \/ LoggerLogExecution /\ UNCHANGED <<varsRate, varsPatch, varsLoop, varsRag, varsSave, varsCall, varsLoad, varsReg, varsFetch>>
    \/ LoggerClearLogs /\ UNCHANGED <<varsRate, varsPatch, varsLoop, varsRag, varsSave, varsCall, varsLoad, varsReg, varsFetch>>
    \/ LoggerShutdown /\ UNCHANGED <<varsRate, varsPatch, varsLoop, varsRag, varsSave, varsCall, varsLoad, varsReg, varsFetch>>
    \/ LoggerRestart /\ UNCHANGED <<varsRate, varsPatch, varsLoop, varsRag, varsSave, varsCall, varsLoad, varsReg, varsFetch>>

SpecLogger == InitLogger /\ [][NextLogger]_vars

InitHead ==
    RateIdle /\ ExecIdle /\ PatchIdle /\ LoopIdle /\ RagIdle /\ SaveIdle /\ HeadInit /\ LoadIdle /\ RegIdle /\ FetchIdle /\ LogIdle

NextHead ==
    \/ FeedHeading /\ UNCHANGED <<varsRate, varsExec, varsPatch, varsLoop, varsRag, varsSave, varsLoad, varsReg, varsFetch, varsLog>>
    \/ FeedText /\ UNCHANGED <<varsRate, varsExec, varsPatch, varsLoop, varsRag, varsSave, varsLoad, varsReg, varsFetch, varsLog>>

SpecHead == InitHead /\ [][NextHead]_vars

InitScore ==
    RateIdle /\ ExecIdle /\ PatchIdle /\ LoopIdle /\ RagIdle /\ SaveIdle /\ ScoreInit /\ LoadIdle /\ RegIdle /\ FetchIdle /\ LogIdle

NextScore ==
    ScoreCall /\ UNCHANGED <<varsRate, varsExec, varsPatch, varsLoop, varsRag, varsSave, varsLoad, varsReg, varsFetch, varsLog>>

SpecScore == InitScore /\ [][NextScore]_vars

InitDiff ==
    RateIdle /\ ExecIdle /\ PatchIdle /\ LoopIdle /\ RagIdle /\ SaveIdle /\ DiffInit /\ LoadIdle /\ RegIdle /\ FetchIdle /\ LogIdle

NextDiff ==
    DiffCall /\ UNCHANGED <<varsRate, varsExec, varsPatch, varsLoop, varsRag, varsSave, varsLoad, varsReg, varsFetch, varsLog>>

SpecDiff == InitDiff /\ [][NextDiff]_vars

InitMention ==
    RateIdle /\ ExecIdle /\ PatchIdle /\ LoopIdle /\ RagIdle /\ SaveIdle /\ MentionInit /\ LoadIdle /\ RegIdle /\ FetchIdle /\ LogIdle

NextMention ==
    MentionCall /\ UNCHANGED <<varsRate, varsExec, varsPatch, varsLoop, varsRag, varsSave, varsLoad, varsReg, varsFetch, varsLog>>

SpecMention == InitMention /\ [][NextMention]_vars

\* time passes and a timer that is due fires
SaveProgress == SaveTick \/ SaveFireAny

SpecSaveFair ==
    SpecSave /\ WF_vars(SaveProgress /\ UNCHANGED <<varsRate, varsExec, varsPatch, varsLoop, varsCall, varsLoad, varsReg, varsFetch, varsLog>>)

\* the model answers every request, the user answers every consent dialog
\* and every tool settles
LoopProgress ==
    \/ LoopStreamEnd
    \/ LoopStreamThrow
    \/ LoopOnce
    \/ LoopDialog
    \/ LoopToolFinish
    \/ LoopToolReturn
    \/ LoopGrepReturn

SpecLoopFair == SpecLoop /\ WF_vars(LoopProgress /\ UNCHANGED <<varsPatch, varsRag, varsSave, varsCall, varsLoad, varsReg, varsFetch, varsLog>>)

\* a backend that may stay silent: the idle timer fires, a request on an
\* aborted signal is rejected, the user answers every consent dialog and
\* every tool settles; the model need not answer
SilentProgress ==
    \/ LoopTimeout
    \/ aborted /\ LoopStreamThrow
    \/ aborted /\ LoopOnce
    \/ LoopDialog
    \/ LoopToolFinish
    \/ LoopToolReturn
    \/ LoopGrepReturn

SpecLoopSilent ==
    SpecLoop /\ WF_vars(SilentProgress /\ UNCHANGED <<varsPatch, varsRag, varsSave, varsCall, varsLoad, varsReg, varsFetch, varsLog>>)

HasGate(g) == \E i \in 1..Len(ecall.gates) : ecall.gates[i] = g

GateOrder == <<"resolve", "enabled", "network", "consent", "rate", "execute",
               "audit">>

\* C2: when requestConsent reads mode always_allow, a tool with
\* canBypass=false gets the consent dialog, and a tool with canBypass=true is
\* approved (the call goes on to the rate limiter) without any dialog.
C2_AlwaysAllow ==
    (HasGate("consent") /\ ecall.mode = "always_allow")
    => IF CanBypass(ecall.tool)
       THEN ~ecall.prompted /\ ecall.answer = "approve" /\ HasGate("rate")
       ELSE ecall.prompted

\* C2 witness: apply_patch (canBypass=false) is called under mode
\* always_allow and the consent dialog is open.
C2_Witness ==
    /\ epc = "dialog"
    /\ ecall.tool = "apply_patch"
    /\ ecall.mode = "always_allow"
    /\ ~CanBypass(ecall.tool)

\* C3: tool.execute runs only after the tool was resolved, found enabled,
\* found not network-blocked, approved by the Consent Manager and admitted by
\* the Rate Limiter, in this order and within the same call; a prompt is
\* opened only for a known, enabled, unblocked tool; a denied consent leaves
\* the rate limiter untouched.
C3_GateOrder ==
    /\ \A i \in 1..Len(ecall.gates) : ecall.gates[i] = GateOrder[i]
    /\ (epc = "executing" \/ HasGate("execute"))
       => /\ ecall.tool \in ExecTools
          /\ ecall.tool \in enabledTools
          /\ ~(blockExternalRequests /\ ecall.tool \in {"web_search", "web_fetch"})
          /\ ecall.answer \in {"approve", "once", "session", "always"}
          /\ lastCheck.called /\ lastCheck.ok /\ lastCheck.tool = ecall.tool
          /\ Len(admitLog) = ecall.admitAtStart + 1
    /\ (epc = "dialog" \/ ecall.prompted)
       => /\ ecall.tool \in ExecTools
          /\ ecall.tool \in enabledTools
          /\ ~(blockExternalRequests /\ ecall.tool \in {"web_search", "web_fetch"})
    /\ (epc = "idle" /\ eresult.error \in {"not_found", "not_enabled",
                                            "network_blocked", "consent_denied"})
       => /\ Len(admitLog) = ecall.admitAtStart
          /\ ~HasGate("rate") /\ ~HasGate("execute")

\* C3 witness: a tool is executing after the user approved its prompt.
C3_Witness ==
    /\ epc = "executing"
    /\ ecall.prompted
    /\ ecall.answer = "once"

\* C4: once undo of execution E has succeeded, F holds the pre-image it had
\* before execution E.
C4_UndoRestores ==
    (presult.op = "undo" /\ presult.success)
    => pfile = phist[presult.id].pre

CleanSend == ~lhist.cancelled /\ ~lhist.timedOut /\ ~lhist.failed

\* the texts received after the first tool round
PostToolTexts == SelectSeq(lhist.got, LAMBDA t : t # StageText("stream1"))

C7_CancelKeepsText ==
    (lhist.ended /\ lhist.cancelled /\ ~lhist.timedOut /\ ~lhist.failed)
    => /\ assistantContent \in {<<Cancelled>>} \cup {<<t>> : t \in Texts}
       /\ ~pendingContext

\* C8: after a cancel no consent prompt of the send stays open and no
\* further tool is executed in the send.
C8_CancelStops ==
    /\ (isStreaming /\ lhist.cancelled) => epc # "dialog"
    /\ ~lhist.execAfterCancel

\* a markdown document outside the excluded folders
Eligible(path) ==
    /\ vault[path].exists
    /\ Extension(path) = "md"
    /\ ~IsExcluded(path, ragExcludeFolders)

ChunkSet(cs) == {cs[i] : i \in 1..Len(cs)}

\* C9: starting from a rebuilt store, after any sequence of modify, delete
\* and rename notifications handled one at a time the store holds for each
\* eligible document exactly the chunks of its current content and no chunk
\* for any other path (deleted paths and old names included).
C9_StoreConsistent ==
    (rpc = "idle" /\ ragEnabled /\ rhist.base = "rebuilt")
    => \A path \in Paths :
         FileChunks(chunks, path) =
            IF Eligible(path) THEN ChunkFile(path, vault[path].lines) ELSE <<>>

\* every markdown document was handled by handleFileChange since the store
\* was emptied, and nothing was deleted or renamed since
IncrementallyBuilt ==
    /\ rhist.base = "cleared"
    /\ rhist.plain
    /\ \A path \in Paths :
         (vault[path].exists /\ Extension(path) = "md") => path \in rhist.handled

\* C10: the store left by a full rebuild holds the chunks rebuildIndex
\* computes for the vault, and the store built from empty by one
\* handleFileChange per document holds the same chunks, in some order.
C10_SameChunks ==
    /\ rhist.fresh => chunks = RebuildChunks(vault)
    /\ IncrementallyBuilt
       => /\ ChunkSet(chunks) = ChunkSet(RebuildChunks(vault))
          /\ Len(chunks) = Len(RebuildChunks(vault))

\* C10 witness: two documents were indexed incrementally from an empty
\* store in the order opposite to the rebuild's.
C10_Witness ==
    /\ IncrementallyBuilt
    /\ rhist.handled = {PathA, PathXA}
    /\ Len(chunks) >= 2
    /\ chunks # RebuildChunks(vault)

ExpectedChunks(p) ==
    IF vault[p] # NoFile /\ Extension(p) = "md"
       /\ ~IsExcluded(p, ragExcludeFolders)
    THEN ChunkFile(p, vault[p].lines)
    ELSE <<>>

\* a burst of modifications is open: its save timer is pending
BurstOpen == shist.mods >= 1 /\ timers # <<>>

\* the burst was written: one write, no timer left, and the snapshot holds
\* the chunks of the present content of every document the burst wrote
BurstWritten ==
    /\ shist.mods >= 1
    /\ timers = <<>>
    /\ shist.writes = 1
    /\ indexFile = Snapshot(chunks)
    /\ \A p \in shist.paths :
         FileChunks(indexFile.chunks, p) = ExpectedChunks(p)

C12_NeverAllow ==
    ecall.mode = "never_allow"
    => /\ ~ecall.prompted
       /\ ecall.answer = "deny"
       /\ epc = "idle"
       /\ eresult = Failure("consent_denied")
       /\ ~HasGate("rate")
       /\ ~HasGate("execute")

\* C12 witness: the safe tool find was denied under never_allow with
\* developer mode on and find in the session cache.
C12_Witness ==
    /\ ecall.mode = "never_allow"
    /\ ecall.tool = "find"
    /\ ecall.dev
    /\ ecall.inSession
    /\ eresult = Failure("consent_denied")

\* C13: a call of a tool that is in the session cache (the user answered an
\* earlier consent prompt of the tool with Allow-for-Session and the cache
\* was not cleared since) is approved without a prompt, unless the tool is
\* blocked by never_allow.
C13_SessionSticks ==
    (ecall.inSession /\ ecall.mode # "never_allow")
    => /\ ~ecall.prompted
       /\ ecall.answer = "approve"

\* a required parameter of the tool is missing from the map
MissingRequired(name, params) ==
    \/ name \in {"find", "grep"} /\ "pattern" \notin DOMAIN params
    \/ name = "web_fetch" /\ "url" \notin DOMAIN params
    \/ name = "apply_patch"
       /\ ("path" \notin DOMAIN params \/ "patches" \notin DOMAIN params)

\* the inputs the tools must refuse: an unknown tool, a missing required
\* parameter, a pattern that is no regular expression, a path without file,
\* a folder
BadInput(name, params) ==
    \/ name \notin ExecTools
    \/ MissingRequired(name, params)
    \/ name = "grep" /\ "pattern" \in DOMAIN params /\ params["pattern"] = "("
    \/ name = "apply_patch" /\ "path" \in DOMAIN params
       /\ params["path"] \in {"missing.md", "folder"}

\* C14: every executeWithConsent call that has returned returned a
\* ToolResult (its promise was not rejected), and for an unknown tool, a
\* missing required parameter, an invalid regex, a missing file, a folder
\* path and an exception thrown by tool.execute the result has success=false
\* and an error message.
C14_AlwaysResult ==
    (epc = "idle" /\ ecall.tool # "")
    => /\ eresult # Rejected
       /\ eresult # NoResult
       /\ (BadInput(ecall.tool, eparams) \/ ecall.outcome = "throw")
          => ~eresult.success /\ eresult.error \notin {"", "none"}

\* C14 witness: grep was approved and executed with a pattern that is no
\* regular expression, and the call returned a failure.
C14_Witness ==
    /\ epc = "idle"
    /\ ecall.tool = "grep"
    /\ "pattern" \in DOMAIN eparams /\ eparams["pattern"] = "("
    /\ HasGate("execute")
    /\ ~eresult.success

\* the audit log grew by n entries
Appended(n) ==
    /\ Len(auditLogs') = Len(auditLogs) + n
    /\ SubSeq(auditLogs', 1, Len(auditLogs)) = auditLogs

\* the entry appended last
LastEntry(logs) == logs[Len(logs)]

\* a step in which tool.execute settled and executeWithConsent returned
ExecutedStep == epc = "executing" /\ epc' = "idle"

\* a step in which requestConsent answered false (at once or by the Deny
\* button) and executeWithConsent returned
DeniedStep ==
    /\ epc \in {"idle", "dialog"}
    /\ epc' = "idle"
    /\ ecall'.answer = "deny"
    /\ presult' = presult
    /\ undoStack' = undoStack

\* a step in which ToolRegistry.undo succeeded
UndoStep ==
    /\ presult'.op = "undo"
    /\ presult'.success
    /\ undoStack' # undoStack

C15_Step ==
    IF ~enableAuditLog THEN Appended(0)
    ELSE IF ExecutedStep
    THEN /\ Appended(1)
         /\ LastEntry(auditLogs').tool = ecall.tool
         /\ LastEntry(auditLogs').executionId \in {"exec", "unknown"}
         /\ LastEntry(auditLogs').success = eresult'.success
         /\ LastEntry(auditLogs').parameters = SanitizeLog(eparams)
    ELSE IF DeniedStep
    THEN /\ Appended(1)
         /\ LastEntry(auditLogs').tool = ecall'.tool
         /\ LastEntry(auditLogs').executionId = "denied"
         /\ ~LastEntry(auditLogs').success
         /\ LastEntry(auditLogs').parameters = SanitizeLog(eparams')
         /\ (logParameterValues /\ ~anonymizeLog)
            => LastEntry(auditLogs').parameters = eparams'
    ELSE IF UndoStep
    THEN /\ Appended(1)
         /\ LastEntry(auditLogs').tool = "apply_patch"
         /\ LastEntry(auditLogs').executionId = "undo"
    ELSE Appended(0)

\* C15: with audit logging enabled every step in which executeWithConsent
\* returns after tool.execute ran (it succeeded, returned a failure or
\* threw) appends exactly one entry to the audit log, every consent denial
\* appends exactly one entry with the attempted parameters (as sanitizeLog
\* stores them: in full under the default privacy settings), every
\* successful undo appends exactly one entry, and no other step changes the
\* log.
C15_OneEntry == [][C15_Step]_vars

\* C15 witness: with the default privacy settings the Deny button was
\* pressed for an apply_patch call, and the entry appended holds the
\* parameters of the call.
C15_Witness ==
    /\ enableAuditLog /\ logParameterValues /\ ~anonymizeLog
    /\ epc = "idle"
    /\ ecall.tool = "apply_patch"
    /\ ecall.prompted /\ ecall.answer = "deny"
    /\ ecall.logged = 1
    /\ eparams # <<>>
    /\ LastEntry(auditLogs).executionId = "denied"
    /\ LastEntry(auditLogs).parameters = eparams

\* the parameters whose value is a file path, a list of file paths or a URL
PathValuedKeys == {"path", "url", "fileList"}

\* C16: with parameter suppression on every entry of the audit log holds
\* the redaction marker in place of its parameters, whatever the
\* anonymization toggle is; with suppression off and anonymization on no
\* entry holds the value of a path-valued or URL-valued parameter.
C16_Sanitized ==
    \A i \in 1..Len(auditLogs) :
       /\ ~logParameterValues => auditLogs[i].parameters = RedactedParams
       /\ (logParameterValues /\ anonymizeLog)
          => \A k \in DOMAIN auditLogs[i].parameters \cap PathValuedKeys :
               auditLogs[i].parameters[k] = "[REDACTED]"

\* C17: when the tool calls of a send were processed and the assistant text
\* is blank, the send makes exactly one streaming request without tools,
\* then one non-streaming request exactly when that request delivered no
\* text, and shows a placeholder only after both.
C17_ReAsk ==
    (lhist.ended /\ CleanSend /\ lhist.tools /\ lhist.blank)
    => /\ lhist.fallbacks = 1
       /\ lhist.onces = (IF \E i \in 1..Len(lhist.got) :
                               lhist.got[i] = StageText("fallback")
                         THEN 0 ELSE 1)
       /\ assistantContent \in {<<NoResponse>>, <<EndedUnexpectedly>>}
          => lhist.onces = 1

\* C18: once the idle timer has fired the request of the send stays
\* aborted, and in front of a backend that may stay silent every send in
\* progress (one whose open stream timed out included) ends with the
\* streaming state cleared.
C18_Watchdog ==
    /\ []((lhist.timedOut /\ isStreaming) => aborted)
    /\ (isStreaming ~> (lhist.ended /\ ~isStreaming))

\* C18 witness: the backend delivered nothing, the idle timer fired, and the
\* send ended with the streaming state cleared.
C18_Witness ==
    /\ lhist.ended /\ lhist.timedOut /\ ~lhist.cancelled /\ ~lhist.failed
    /\ lhist.got = <<>>
    /\ lhist.requests = 1
    /\ ~isStreaming

\* C19: whenever streamCompletion has returned, the assistant message of
\* the send holds a non-empty content.
C19_NonEmpty ==
    (lpc = "idle" /\ sends > 0)
    => /\ lhist.ended
       /\ ~IsBlank(assistantContent)
       /\ \A i \in 1..Len(assistantContent) : assistantContent[i] # ""

\* C19 witness: the re-stream after a tool call delivered no text and the
\* send ended with the placeholder of the finally block.
C19_Witness ==
    /\ lhist.ended /\ CleanSend /\ lhist.tools
    /\ lhist.fallbacks = 0
    /\ assistantContent = <<EndedUnexpectedly>>

\* C20: at most one streamCompletion call is in progress, it is in progress
\* exactly while isStreaming is set, and a model request, a tool execution
\* and a consent prompt are never in flight together.
C20_OneSend ==
    /\ lhist.active <= 1
    /\ (lhist.active = 1) <=> isStreaming
    /\ (lpc \in Streams \cup {"once"}) => epc = "idle"
    /\ (epc # "idle") => (isStreaming /\ lpc \in {"tool", "grep"})

\* C20 witness: the second send of the conversation is in progress and its
\* tool call is waiting for the consent prompt.
C20_Witness ==
    /\ sends = 2
    /\ isStreaming
    /\ lhist.active = 1
    /\ epc = "dialog"

RECURSIVE OutlinePath(_)
\* the outline path after `lines`: every heading line of level k truncates
\* the path to its first k-1 titles and appends its title
OutlinePath(lines) ==
    IF lines = <<>> THEN <<>>
    ELSE LET before == OutlinePath(SubSeq(lines, 1, Len(lines) - 1))
             line == lines[Len(lines)]
         IN  IF IsHeadingLine(line)
             THEN SubSeq(before, 1, Min(line.hashes - 1, Len(before)))
                  \o <<line.text>>
             ELSE before

\* C21: after any sequence of lines the heading stack of chunkFile is the
\* outline path of the heading lines read, and the chunk that holds the
\* text after the last heading carries that path.
C21_HeadingPath ==
    /\ fnResult.headings = OutlinePath(fnArgs)
    /\ (fnArgs # <<>> /\ ~IsHeadingLine(fnArgs[Len(fnArgs)]))
       => LET cs == ChunkFile(PathA, fnArgs)
          IN  cs # <<>> /\ cs[Len(cs)].headings = OutlinePath(fnArgs)

\* sum of f over the positions of a sequence
RECURSIVE SumOver(_, _)
SumOver(n, f) == IF n = 0 THEN 0 ELSE f[n] + SumOver(n - 1, f)

RECURSIVE DisjointOccurrences(_, _)
\* number of occurrences of the token counted from the left without overlap
DisjointOccurrences(text, token) ==
    IF Matches(text, token) = {} THEN 0
    ELSE 1 + DisjointOccurrences(
                 SubSeq(text, SetMin(Matches(text, token)) + Len(token),
                        Len(text)), token)

\* C22 as claimed: the score is 5 times the sum over the tokens of the
\* number of occurrences of the token in the text (counted without
\* overlap), plus 10 times the number of tokens that occur in at least one
\* heading of the outline path.
C22_ScoreAsClaimed ==
    fnResult.done
    => fnResult.score =
         5 * SumOver(Len(fnArgs.tokens),
                     [i \in 1..Len(fnArgs.tokens) |->
                        DisjointOccurrences(fnArgs.contentLower,
                                            fnArgs.tokens[i])])
         + 10 * Cardinality({i \in 1..Len(fnArgs.tokens) :
                  \E j \in 1..Len(fnArgs.headings) :
                     Includes(ToLower(fnArgs.headings[j]), fnArgs.tokens[i])})

\* C22 amended: the score is 5 times the sum over the tokens of the number
\* of occurrences of the token in the text counted without overlap, plus 10
\* for every pair of a token and a heading of the outline path whose
\* lowercased title holds the token.
C22_Score ==
    fnResult.done
    => fnResult.score =
         5 * SumOver(Len(fnArgs.tokens),
                     [i \in 1..Len(fnArgs.tokens) |->
                        DisjointOccurrences(fnArgs.contentLower,
                                            fnArgs.tokens[i])])
         + 10 * Cardinality({<<i, j>> \in (1..Len(fnArgs.tokens))
                                          \X (1..Len(fnArgs.headings)) :
                  Includes(ToLower(fnArgs.headings[j]), fnArgs.tokens[i])})

\* C22 witness: a token that occurs in the text and in two headings of the
\* outline path was scored.
C22_Witness ==
    /\ fnResult.done
    /\ fnArgs.tokens = <<<<"a", "a", "a">>>>
    /\ fnArgs.contentLower = <<"a", "a", "a", "a">>
    /\ fnArgs.headings = <<<<"A", "a", "a">>, <<"a", "a", "a", "b">>>>
    /\ fnResult.score = 25

\* the documents a name may resolve to: those whose name equals it, when
\* there is none those whose name contains it, when there is none those
\* whose path contains it (letter case ignored)
BestMatches(files, name) ==
    LET n == ToLower(name)
        exact == {f \in Range(files) : ToLower(f.basename) = n}
        sub == {f \in Range(files) : Includes(ToLower(f.basename), n)}
        inPath == {f \in Range(files) : Includes(ToLower(f.path), n)}
    IN  IF exact # {} THEN exact ELSE IF sub # {} THEN sub ELSE inPath

\* C23: every mentioned name with a matching document contributes the path
\* of a document of its best class of matches (exact name, then substring
\* of the name, then substring of the path) and is not reported missing;
\* every other name is reported missing; nothing else is returned.
C23_Resolve ==
    fnResult.done
    => /\ \A i \in 1..Len(fnArgs.names) :
             LET best == BestMatches(fnArgs.files, fnArgs.names[i])
             IN  IF best = {}
                 THEN fnArgs.names[i] \in Range(fnResult.missing)
                 ELSE /\ fnArgs.names[i] \notin Range(fnResult.missing)
                      /\ \E f \in best : f.path \in Range(fnResult.paths)
       /\ \A p \in Range(fnResult.paths) :
             \E i \in 1..Len(fnArgs.names) :
                \E f \in BestMatches(fnArgs.files, fnArgs.names[i]) :
                   f.path = p
       /\ Injective(fnResult.paths)
       /\ Injective(fnResult.missing)

\* C23 witness: with Meeting Notes.md listed before Meeting.md the mention
\* "meeting" resolved to Meeting.md, and a name without document was
\* reported missing.
C23_Witness ==
    /\ fnResult.done
    /\ fnArgs.files = <<[basename |-> <<"M", " ", "N">>,
                         path |-> <<"M", " ", "N", ".md">>],
                        [basename |-> <<"M">>, path |-> <<"M", ".md">>]>>
    /\ fnArgs.names = <<<<"m">>, <<"z">>>>
    /\ fnResult.paths = <<<<"M", ".md">>>>
    /\ fnResult.missing = <<<<"z">>>>

\* the texts of the lines of a diff that carry one of the prefixes
DiffTexts(diff, prefixes) ==
    LET sel == SelectSeq(diff, LAMBDA l : l.prefix \in prefixes)
    IN  [i \in 1..Len(sel) |-> sel[i].text]

DiffAdded(diff) == Len(DiffTexts(diff, {"+"}))

DiffRemoved(diff) == Len(DiffTexts(diff, {"-"}))

RECURSIVE Lcs(_, _)
\* length of the longest common subsequence of two contents
Lcs(a, b) ==
    IF a = <<>> \/ b = <<>> THEN 0
    ELSE IF Head(a) = Head(b) THEN 1 + Lcs(Tail(a), Tail(b))
    ELSE Max(Lcs(Tail(a), b), Lcs(a, Tail(b)))

\* C24 as claimed: the diff lists as many removed lines as the pre-image
\* has lines that are not in the post-image, and as many added lines as
\* the post-image has lines that are not in the pre-image (the smallest
\* line-level change between the two contents).
C24_DiffMinimal ==
    fnResult.done
    => /\ DiffRemoved(fnResult.diff)
            = Len(fnArgs.content) - Lcs(fnArgs.content, fnResult.newContent)
       /\ DiffAdded(fnResult.diff)
            = Len(fnResult.newContent) - Lcs(fnArgs.content, fnResult.newContent)

\* C24 amended: the unchanged and removed lines of the diff are, in order,
\* the pre-image, its unchanged and added lines the post-image; so added
\* minus removed is the change of the number of lines, and neither count
\* is below the smallest line-level change.
C24_DiffConsistent ==
    fnResult.done
    => /\ DiffTexts(fnResult.diff, {" ", "-"}) = fnArgs.content
       /\ DiffTexts(fnResult.diff, {" ", "+"}) = fnResult.newContent
       /\ DiffAdded(fnResult.diff) - DiffRemoved(fnResult.diff)
            = Len(fnResult.newContent) - Len(fnArgs.content)
       /\ DiffRemoved(fnResult.diff)
            >= Len(fnArgs.content) - Lcs(fnArgs.content, fnResult.newContent)
       /\ DiffAdded(fnResult.diff)
            >= Len(fnResult.newContent) - Lcs(fnArgs.content, fnResult.newContent)

\* C24 witness: a line was inserted in front of a two-line file, and the
\* diff lists two removed and three added lines.
C24_Witness ==
    /\ fnResult.done
    /\ fnArgs.content = <<"a", "b">>
    /\ fnResult.newContent = <<"b", "a", "b">>
    /\ DiffRemoved(fnResult.diff) = 2
    /\ DiffAdded(fnResult.diff) = 3

\* C25: when the read of a document rejects during a rebuild the rebuild
\* goes on with the next document and keeps the chunks collected so far,
\* so that it ends by replacing the store and writing the snapshot.
C25_SkipUnreadable ==
    [][(ReadFailStep /\ vault' = vault)
          => (rpc' = "reading" /\ rfiles' = Tail(rfiles) /\ racc' = racc)]_vars

\* C26: loadIndex never leaves `ready` rejected, whatever the snapshot
\* holds: operations that await `ready` after the load go on.
C26_LoadUsable == ready # "rejected"

\* the store is emptied by a snapshot that cannot be parsed, and the
\* rebuild starts when indexing is enabled
LoadCorruptStep ==
    [][(ready = "loading" /\ ready' # "loading" /\ indexFile = CorruptIndex)
          => /\ chunks' = <<>>
             /\ ragEnabled => (rpc' = "reading" /\ ready' = "rebuilding")
             /\ ~ragEnabled => (rpc' = "idle" /\ ready' = "resolved")]_vars

\* the call recorded in regLast offered an id or a tool name that the
\* registry already held
RegCollides ==
    \/ regLast.id \in DOMAIN regLast.providers
    \/ \E i \in 1..Len(regLast.offered) :
           regLast.offered[i] \in DOMAIN regLast.tools

\* C27: registerProvider rejects when the provider id is already
\* registered or when one of the provider's tool names is already
\* registered.
C27_RegisterRejects ==
    (regLast.op = "register" /\ RegCollides) => regLast.rejected

\* C27: a provider with a new id and a tool name that another provider
\* registered was rejected
C27_Witness ==
    /\ regLast.op = "register"
    /\ regLast.rejected
    /\ regLast.id \notin DOMAIN regLast.providers
    /\ \E i \in 1..Len(regLast.offered) :
           regLast.offered[i] \in DOMAIN regLast.tools

\* what the consent rules give a call without developer mode: a refusal,
\* an approval without dialog, or the dialog
ConsentDevOff(t, mode, inSession) ==
    IF mode = "never_allow" THEN "deny"
    ELSE IF mode = "always_allow" /\ CanBypass(t) THEN "approve"
    ELSE IF mode = "session_allow" /\ inSession THEN "approve"
    ELSE "ask"

\* what requestConsent did in the call recorded in ecall
ConsentSeen == IF ecall.prompted THEN "ask" ELSE ecall.answer

CursorInText ==
    /\ ~IsHeadingLine(fnArgs.lines[fnArgs.k])
    /\ fnArgs.lines[fnArgs.k].len > 0

\* the chunk whose text holds line k: the last chunk of the document cut
\* after line k
CursorChunk ==
    LET cs == ChunkFile(PathA, SubSeq(fnArgs.lines, 1, fnArgs.k))
    IN  cs[Len(cs)].id

\* the ids of the returned chunks
ActiveIds == [i \in 1..Len(fnResult.active) |-> fnResult.active[i].chunk.id]

\* a sequence of chunk ids of one document is in document order
InDocumentOrder(ids) ==
    \A i, j \in 1..Len(ids) : i < j => ids[i][2] < ids[j][2]

\* C30: when the cursor is in a line of text, the chunk whose text holds
\* that line is the first chunk returned (when it is returned at all) and
\* the chunks after the first are in document order, whether the chunks were
\* closed by a heading or by the size bound.
C30_CursorFirst ==
    (fnResult.done /\ CursorInText
       /\ \E i \in 1..Len(ActiveIds) : ActiveIds[i] = CursorChunk)
    => /\ ActiveIds[1] = CursorChunk
       /\ InDocumentOrder(Tail(ActiveIds))

\* the document has no line that closes a chunk by the size bound
NoLongLine == \A i \in 1..Len(fnArgs.lines) : fnArgs.lines[i] # LongLine

\* the same for the documents whose chunks are all closed by a heading or
\* by the end of the document
CursorFirstHeadingsOnly == NoLongLine => C30_CursorFirst

\* C29: a context that getContextForMessage returns holds at most
\* ragMaxContext chunks, the active and the retrieved ones counted together.
C29_TotalBudget ==
    (fnResult.done /\ ~fnResult.context.null)
    => Len(fnResult.context.active) + Len(fnResult.context.retrieved)
          <= fnArgs.ragMaxContext

\* the retrieved chunks fill what the active chunks leave of the budget
RetrievedBudget ==
    (fnResult.done /\ ~fnResult.context.null)
    => \/ fnResult.context.retrieved = <<>>
       \/ Len(fnResult.context.active) + Len(fnResult.context.retrieved)
             <= fnArgs.ragMaxContext

\* how often x occurs in seq
Occurs(seq, x) == Cardinality({i \in 1..Len(seq) : seq[i] = x})

\* the timestamps limits holds for tool t
TimesOf(map, t) == IF t \in DOMAIN map THEN map[t] ELSE <<>>

\* C31: a checkLimit call that is rejected adds no timestamp to the tool
\* lists nor to the global list; a call that is admitted adds the current
\* time once to the list of its tool and once to the global list, and
\* nothing else.
C31_RejectRecordsNothing ==
    [][now' = now
         => \A t \in RateTools, ts \in 0..MaxTime :
               LET added == IF lastCheck'.ok /\ t = lastCheck'.tool /\ ts = now
                            THEN 1 ELSE 0
                   gadded == IF lastCheck'.ok /\ ts = now THEN 1 ELSE 0
               IN  /\ Occurs(TimesOf(limits', t), ts)
                         <= Occurs(TimesOf(limits, t), ts) + added
                   /\ Occurs(globalTimestamps', ts)
                         <= Occurs(globalTimestamps, ts) + gadded
                   /\ ts = now
                      => /\ Occurs(TimesOf(limits', t), ts)
                              = Occurs(TimesOf(limits, t), ts) + added
                         /\ Occurs(globalTimestamps', ts)
                              = Occurs(globalTimestamps, ts) + gadded]_vars

\* C31 witness: a call was rejected by the global limit while the list of
\* its tool was below the tool's limit
C31_Witness ==
    /\ lastCheck.called
    /\ ~lastCheck.ok
    /\ Len(globalTimestamps) >= globalRateLimit
    /\ Len(TimesOf(limits, lastCheck.tool)) < ToolLimit(lastCheck.tool)

\* hostname is a subdomain of domain: it ends with a dot and the domain
IsSubdomain(hostname, domain) ==
    /\ Len(hostname) > Len(domain) + 1
    /\ SubSeq(hostname, Len(hostname) - Len(domain), Len(hostname))
          = <<".">> \o domain

\* the URLs the settings let web_fetch serve; the domain of a wildcard
\* entry is counted with its subdomains
FetchPermitted(url) ==
    /\ url.host # <<>>
    /\ \/ fetchSettings.allowAllDomains
       \/ \E entry \in fetchSettings.allowedDomains :
             IF SubSeq(entry, 1, 2) = <<"*", ".">>
             THEN \/ IsSubdomain(url.host, SubSeq(entry, 3, Len(entry)))
                  \/ url.host = SubSeq(entry, 3, Len(entry))
             ELSE url.host = entry
    /\ fetchSettings.httpsOnly => Protocol(url) = "https"

\* C32: web_fetch returns content, fresh or cached, only for a URL that
\* the allowlist (an equal entry, or a wildcard entry of which the host is a
\* subdomain, or allow-all) and the HTTPS-only setting permit; for every
\* other URL it fails and sends no request.
C32_FetchGate ==
    (fetchLast.called /\ ~FetchPermitted(fetchLast.url))
    => (~fetchLast.success /\ ~fetchLast.requested)

\* the same with a wildcard entry that admits every host name that ends
\* with the text after `*.`
FetchGateSuffix ==
    (fetchLast.called /\ ~fetchLast.url.host = <<>>
       /\ ~FetchPermitted(fetchLast.url)
       /\ (fetchLast.success \/ fetchLast.requested))
    => /\ ~fetchSettings.allowAllDomains
       /\ \E entry \in fetchSettings.allowedDomains :
             /\ SubSeq(entry, 1, 2) = <<"*", ".">>
             /\ EndsWith(fetchLast.url.host, SubSeq(entry, 3, Len(entry)))
       /\ fetchSettings.httpsOnly => fetchLast.url.scheme = "https"

\* C33: while indexing is disabled, with the index cleared when or after it
\* was disabled, no snapshot is on disk, whatever documents are modified,
\* deleted or renamed and whatever timers fire.
C33_NoSnapshotWhileOff ==
    (~ragEnabled /\ rhist.wiped) => indexFile = NoIndex

\* C40: when indexing is switched off on a store that reflects the vault,
\* documents are then modified, and indexing is switched on again, then
\* after setEnabled(true) has returned the store holds for every eligible
\* document the chunks of its current content.
C40_ReenableReflects ==
    (rhist.toggle = "on" /\ ragEnabled /\ rpc = "idle")
    => \A path \in Paths :
         FileChunks(chunks, path) =
            IF Eligible(path) THEN ChunkFile(path, vault[path].lines) ELSE <<>>

\* C34: with a fixed exclusion set, after any rebuilds, document events,
\* mention lookups and find follow-ups the store holds no chunk of a
\* document under an excluded folder.
C34_NoExcludedChunks ==
    \A i \in 1..Len(chunks) : ~IsExcluded(chunks[i].file, ragExcludeFolders)

\* C35: a modify or delete notification handled while a full rebuild is
\* suspended on a read is not lost: once the rebuild has completed the
\* store holds for that document the chunks of its latest content, or none
\* if it was deleted or is not eligible.
C35_RebuildKeepsEvents ==
    (rpc = "idle" /\ ragEnabled)
    => \A path \in rhist.raced :
         FileChunks(chunks, path) =
            IF Eligible(path) THEN ChunkFile(path, vault[path].lines) ELSE <<>>

\* C36: the idle watchdog aborts a send only while a model request is open:
\* no step in which the timer aborts the send is taken while the loop waits
\* for the consent decision or for the execution of a tool call.
C36_WatchdogOnRequestOnly ==
    [][(~lhist.timedOut /\ lhist'.timedOut /\ ~aborted /\ aborted')
       => lpc \notin {"tool", "grep"}]_vars

\* C37: after any registerProvider and unregisterProvider calls every
\* registered tool belongs to a registered provider that lists it, every
\* tool of a registered provider is registered for that provider, and a
\* rejected registerProvider has left the providers and the tools as they
\* were.
C37_RegistryConsistent ==
    /\ \A name \in DOMAIN tools :
          /\ tools[name] \in DOMAIN providers
          /\ name \in Range(providers[tools[name]])
    /\ \A id \in DOMAIN providers :
          \A name \in Range(providers[id]) :
             name \in DOMAIN tools /\ tools[name] = id
    /\ (regLast.op = "register" /\ regLast.rejected)
       => (providers = regLast.providers /\ tools = regLast.tools)

\* C38: the diff shown in the consent prompt of apply_patch is the diff of
\* the change applied after the approval, also when the file was modified
\* while the prompt was open.
C38_PreviewIsApplied ==
    fnResult.pc = "applied" => fnResult.diff = fnResult.preview

\* without a modification while the prompt is open the two diffs are equal
PreviewIsAppliedUnedited ==
    (fnResult.pc = "applied" /\ ~fnResult.edited)
    => fnResult.diff = fnResult.preview

\* C39: the log file is append-only: every entry of the file is still in
\* the file after any step of initialize, a settings update, logExecution
\* or shutdown; only clearLogs, which deletes the file, removes entries.
C39_AppendOnly ==
    [][logFile'.exists
       => \A i \in 1..Len(logFile.entries) :
             logFile.entries[i] \in Range(logFile'.entries)]_vars

\* a write removes an entry of the file only when this.logs did not hold
\* every entry of the file
AppendOnlyEnabled ==
    [][(logFile'.exists /\ logFile' # logFile)
       => \/ \A i \in 1..Len(logFile.entries) :
                logFile.entries[i] \in Range(logFile'.entries)
          \/ \E i \in 1..Len(logFile.entries) :
                logFile.entries[i] \notin Range(auditLogs)]_vars

====
